---- MODULE Spec2Model ----
(***************************************************************************)
(* Experiment orchestrators of the Harvard Agentic System:                 *)
(*   - story finishing, --cache-strategy form                              *)
(*       (experiments/story_finishing/main_test.go, lines 208-914, and     *)
(*        its earlier SGLang-only revision unnamed/part_004)               *)
(*   - story finishing, --policy form (experiments/story_finishing/main.go)*)
(*   - model cascade (experiments/model_cascade/main.go)                   *)
(*                                                                         *)
(* Text is modelled as a sequence of pieces (TLA+ strings): fmt.Sprintf    *)
(* is concatenation of the pieces, %d is the decimal digits of the number. *)
(***************************************************************************)
EXTENDS Integers, Sequences, FiniteSets, TLC

VARIABLES
    cfgFn,      \* the config synthesizer under test
    cfgArgs,    \* its arguments
    cfgOut      \* [written : BOOLEAN, lines : Seq(line)], the file it wrote

cfgVars == <<cfgFn, cfgArgs, cfgOut>>

VARIABLES
    \* runStoryFinishing (the workload runner of the --cache-strategy form)
    rArgs,              \* [turns, k, backendType, cacheStrategy]
    rpc,                \* position: idle, outer, next, exec, done, failed
    turn,               \* turn counter
    step,               \* inner loop counter
    execID,             \* handle in use = number of handles issued so far
    taskIndex,          \* index returned by the last GetNextTask
    storyContext,       \* the story so far (sequence of characters)
    ttftPerTurn,
    tpotPerTurn,
    latencyPerTurnMs,
    result,             \* what runStoryFinishing returned
    calls,              \* every daemon RPC issued, in order
    \* the daemon, as seen through its API
    daemon,             \* none, running, exited
    dExecuted           \* task slots executed on the newest handle

runVars == <<rArgs, rpc, turn, step, execID, taskIndex, storyContext,
             ttftPerTurn, tpotPerTurn, latencyPerTurnMs, result, calls>>

daemonVars == <<daemon, dExecuted>>

VARIABLES
    \* runExperiment of the model cascade
    cArgs,              \* [mode, numTasks, lat]: arguments and the latencies
                        \* the environment shows in this run
    cpc,                \* position: idle, loop, next, exec, ret, done, failed
    ci,                 \* loop variable i
    cStage,             \* 1 analysis, 2 synthesis, 3 summary
    cExecID,            \* handle in use = number of handles issued so far
    cTaskIndex,         \* index returned by the last GetNextTask
    analysisTimes,
    synthesisTimes,
    summaryTimes,
    totalTimes,
    cResult,            \* what runExperiment returned
    cCalls              \* every daemon RPC issued, in order, with its answer

cascVars == <<cArgs, cpc, ci, cStage, cExecID, cTaskIndex, analysisTimes,
              synthesisTimes, summaryTimes, totalTimes, cResult, cCalls>>

VARIABLES
    \* main of the --cache-strategy story orchestrator and its goroutines
    flags,              \* command line and environment of the run
    mpc,                \* position of the main goroutine
    exitCode,           \* -1 while the process runs, then its exit status
    defers,             \* deferred calls registered so far, last one first
    waited,             \* readiness loop: 500 ms sleeps taken so far
    world,              \* files, engine container and window, kill sent
    gor,                \* channels and the watcher/monitor/noise goroutines
    trace               \* external actions performed, in order

mainVars == <<flags, mpc, exitCode, defers, waited, world, gor, trace>>

VARIABLES
    \* runExperiment of the --policy story form: its arguments and locals
    \* [args, pc, turn, execID, taskIndex, updatedTaskIndex, response,
    \*  storyContext, metrics, result, calls]
    pol

polVars == <<pol>>

VARIABLES
    \* two executions of runBackgroundNoise side by side, each
    \* [pc, ctxDone, rngDraws, prompt, interArrival]: the position in the
    \* loop, whether ctx was cancelled, the number of values taken from rng so
    \* far, the draw behind each request goroutine's prompt (0: not drawn
    \* yet) and the draws behind the delays, in order
    noiseRun,
    genRate             \* the rate both executions are called with

hypVars == <<noiseRun, genRate>>

vars == <<cfgVars, runVars, daemonVars, cascVars, mainVars, polVars, hypVars>>

(***************************************************************************)
(* Bounds of the model                                                     *)
(***************************************************************************)
MaxCfgTurns == 4
MaxTurns == 3           \* largest --turns of a workload run
MaxHandles == 3         \* StartWorkflow calls the daemon answers in one run
MaxNumTasks == 21       \* largest --num-tasks of a cascade run
MaxMainTurns == 1       \* largest --turns of an orchestrator run
MaxNoise == 2           \* noise requests the generator launches in one run
MaxLaunches == 2        \* requests one execution of runBackgroundNoise launches

(***************************************************************************)
(* Text helpers                                                            *)
(***************************************************************************)
DigitChars == <<"0", "1", "2", "3", "4", "5", "6", "7", "8", "9">>

RECURSIVE NatDigits(_)
\* decimal digits of a natural number, most significant first
NatDigits(n) ==
    IF n < 10 THEN <<DigitChars[n + 1]>>
    ELSE NatDigits(n \div 10) \o <<DigitChars[(n % 10) + 1]>>

\* fmt's %d verb
FmtD(n) == IF n < 0 THEN <<"-">> \o NatDigits(-n) ELSE NatDigits(n)

\* fmt's "%s" between double quotes, as the config templates write it
Quoted(s) == <<"\"", s, "\"">>

\* one line of a YAML document: an optional list dash, a key, the value text
Line(dash, key, val) == [dash |-> dash, key |-> key, val |-> val]

(***************************************************************************)
(* Workflow config synthesizers                                            *)
(***************************************************************************)
\* a createConfig whose loop starts the alternation with agent b
TaskSlotsSwapped(i, turns) ==
    [j \in 1 .. (IF turns > i THEN turns - i ELSE 0) |->
        Line(TRUE, "agent_profile",
             <<IF (i + j - 1) % 2 = 1 THEN "story_agent_a" ELSE "story_agent_b">>)]

RECURSIVE TaskSlots(_, _)
\* for i := 0; i < turns; i++ { agent a when i is even, agent b when odd }
TaskSlots(i, turns) ==
    IF i < turns
    THEN <<Line(TRUE, "agent_profile",
                <<IF i % 2 = 1 THEN "story_agent_b" ELSE "story_agent_a">>)>>
         \o TaskSlots(i + 1, turns)
    ELSE <<>>

\* a createConfig that writes the threshold for every preserving policy
ThresholdLinesAnyPreserve(policy, smallTurnThreshold) ==
    IF policy # "aggressive_flush"
    THEN <<Line(FALSE, "small_turn_threshold", FmtD(smallTurnThreshold))>>
    ELSE <<>>

\* the optional threshold line of the cache block
ThresholdLines(policy, smallTurnThreshold) ==
    IF policy = "preserve_on_small_turns"
    THEN <<Line(FALSE, "small_turn_threshold", FmtD(smallTurnThreshold))>>
    ELSE <<>>

\* createConfig of the --policy story form: the text it hands to os.WriteFile
createConfig(policy, turns, backend, model, smallTurnThreshold) ==
    <<Line(FALSE, "log_format", <<"pretty">>),
      Line(FALSE, "log_level", <<"debug">>),
      Line(FALSE, "agentic_serving", <<>>),
      Line(FALSE, "mode", <<"daemon">>),
      Line(FALSE, "daemon", <<>>),
      Line(FALSE, "listen_address", Quoted("localhost:8081")),
      Line(FALSE, "llm_servers", <<>>),
      Line(TRUE, "name", Quoted("sglang_shared")),
      Line(FALSE, "backend", <<>>),
      Line(FALSE, "type", Quoted("sglang")),
      Line(FALSE, "endpoint", Quoted(backend)),
      Line(FALSE, "model", Quoted(model)),
      Line(FALSE, "context", <<>>),
      Line(FALSE, "shared", <<"true">>),
      Line(FALSE, "cache", <<>>),
      Line(FALSE, "policy", Quoted(policy))>>
    \o ThresholdLines(policy, smallTurnThreshold)
    \o <<Line(FALSE, "agent_profiles", <<>>),
         Line(TRUE, "name", Quoted("story_agent_a")),
         Line(FALSE, "llm_server", Quoted("sglang_shared")),
         Line(TRUE, "name", Quoted("story_agent_b")),
         Line(FALSE, "llm_server", Quoted("sglang_shared")),
         Line(FALSE, "workflows", <<>>),
         Line(TRUE, "name", Quoted("story_finishing_game")),
         Line(FALSE, "tasks", <<>>)>>
    \o TaskSlots(0, turns)

\* a config synthesizer that ignores the strategy
StoryPolicyAlwaysFlush(cacheStrategy) == "aggressive_flush"

\* policy := "preserve"; if cacheStrategy == "flush" { policy = "aggressive_flush" }
StoryPolicy(cacheStrategy) ==
    IF cacheStrategy = "flush" THEN "aggressive_flush" ELSE "preserve"

storyModelName == "mistralai/Mistral-7B-Instruct-v0.3"

\* the template shared by both branches of createStoryFinishingConfig
StoryConfigText(orlaBackend, modelPrefix, backend, policy, useContext) ==
    <<Line(FALSE, "log_format", <<"pretty">>),
      Line(FALSE, "log_level", <<"info">>),
      Line(FALSE, "agentic_serving", <<>>),
      Line(FALSE, "mode", <<"daemon">>),
      Line(FALSE, "daemon", <<>>),
      Line(FALSE, "listen_address", Quoted("localhost:8081")),
      Line(FALSE, "llm_servers", <<>>),
      Line(TRUE, "name", Quoted("story_model")),
      Line(FALSE, "backend", <<>>),
      Line(FALSE, "type", Quoted(orlaBackend)),
      Line(FALSE, "endpoint", Quoted(backend)),
      Line(FALSE, "model", <<"\"", modelPrefix, storyModelName, "\"">>),
      Line(FALSE, "cache", <<>>),
      Line(FALSE, "policy", Quoted(policy)),
      Line(FALSE, "agent_profiles", <<>>),
      Line(TRUE, "name", Quoted("agent_i")),
      Line(FALSE, "llm_server", Quoted("story_model")),
      Line(TRUE, "name", Quoted("agent_j")),
      Line(FALSE, "llm_server", Quoted("story_model")),
      Line(FALSE, "workflows", <<>>),
      Line(TRUE, "name", Quoted("story_finishing_game")),
      Line(FALSE, "tasks", <<>>),
      Line(TRUE, "agent_profile", Quoted("agent_i")),
      Line(FALSE, "use_context", <<useContext>>),
      Line(TRUE, "agent_profile", Quoted("agent_j")),
      Line(FALSE, "use_context", <<useContext>>)>>

\* createStoryFinishingConfig(backendType, backend, cacheStrategy): it takes
\* no turn count; the workflow always has the two slots of the template
createStoryFinishingConfig(backendType, backend, cacheStrategy) ==
    IF backendType = "vllm"
    THEN StoryConfigText("openai", "openai:", backend,
                         StoryPolicy(cacheStrategy), "false")
    ELSE StoryConfigText("sglang", "sglang:", backend,
                         StoryPolicy(cacheStrategy), "false")

\* the SGLang-only revision: createStoryFinishingConfig(backend, cacheStrategy)
createStoryFinishingConfigSGLang(backend, cacheStrategy) ==
    StoryConfigText("sglang", "sglang:", backend,
                    StoryPolicy(cacheStrategy), "true")

\* the head every model_cascade template starts with
CascadeConfigHead ==
    <<Line(FALSE, "log_format", <<"pretty">>),
      Line(FALSE, "log_level", <<"info">>),
      Line(FALSE, "agentic_serving", <<>>),
      Line(FALSE, "mode", <<"daemon">>),
      Line(FALSE, "daemon", <<>>),
      Line(FALSE, "listen_address", Quoted("localhost:8081")),
      Line(FALSE, "llm_servers", <<>>)>>

\* one entry of llm_servers in the model_cascade templates
ServerEntry(name, type, endpoint, model) ==
    <<Line(TRUE, "name", Quoted(name)),
      Line(FALSE, "backend", <<>>),
      Line(FALSE, "type", Quoted(type)),
      Line(FALSE, "endpoint", Quoted(endpoint)),
      Line(FALSE, "model", Quoted(model))>>

\* agent_profiles of the model_cascade templates: router, synthesizer,
\* summarizer, each with its llm_server
CascadeProfiles(routerServer, synthesizerServer, summarizerServer) ==
    <<Line(FALSE, "agent_profiles", <<>>),
      Line(TRUE, "name", Quoted("router")),
      Line(FALSE, "llm_server", Quoted(routerServer)),
      Line(TRUE, "name", Quoted("synthesizer")),
      Line(FALSE, "llm_server", Quoted(synthesizerServer)),
      Line(TRUE, "name", Quoted("summarizer")),
      Line(FALSE, "llm_server", Quoted(summarizerServer))>>

\* the workflows block every model_cascade template ends with
CascadeWorkflow ==
    <<Line(FALSE, "workflows", <<>>),
      Line(TRUE, "name", Quoted("task_processor")),
      Line(FALSE, "tasks", <<>>),
      Line(TRUE, "agent_profile", Quoted("router")),
      Line(TRUE, "agent_profile", Quoted("synthesizer")),
      Line(TRUE, "agent_profile", Quoted("summarizer"))>>

\* createBaselineConfig(path, backendLarge): the text handed to os.WriteFile
createBaselineConfig(backendLarge) ==
    CascadeConfigHead
    \o ServerEntry("large_model", "sglang", backendLarge,
                   "sglang:mistralai/Mistral-7B-Instruct-v0.3")
    \o CascadeProfiles("large_model", "large_model", "large_model")
    \o CascadeWorkflow

\* a cascade config that sends the summary stage to the large model too
createCascadeConfigLargeSummary(backendSmall, backendLarge) ==
    CascadeConfigHead
    \o ServerEntry("small_model", "sglang", backendSmall,
                   "sglang:Qwen/Qwen2.5-0.5B-Instruct")
    \o ServerEntry("large_model", "sglang", backendLarge,
                   "sglang:mistralai/Mistral-7B-Instruct-v0.3")
    \o CascadeProfiles("small_model", "large_model", "large_model")
    \o CascadeWorkflow

\* createCascadeConfig(path, backendSmall, backendLarge)
createCascadeConfig(backendSmall, backendLarge) ==
    CascadeConfigHead
    \o ServerEntry("small_model", "sglang", backendSmall,
                   "sglang:Qwen/Qwen2.5-0.5B-Instruct")
    \o ServerEntry("large_model", "sglang", backendLarge,
                   "sglang:mistralai/Mistral-7B-Instruct-v0.3")
    \o CascadeProfiles("small_model", "large_model", "small_model")
    \o CascadeWorkflow

\* createOllamaBaselineConfig(path, backendOllama)
createOllamaBaselineConfig(backendOllama) ==
    CascadeConfigHead
    \o ServerEntry("large_model", "ollama", backendOllama,
                   "ollama:mistral:7b-instruct")
    \o CascadeProfiles("large_model", "large_model", "large_model")
    \o CascadeWorkflow

\* createOllamaCascadeConfig(path, backendOllama): both servers on one endpoint
createOllamaCascadeConfig(backendOllama) ==
    CascadeConfigHead
    \o ServerEntry("small_model", "ollama", backendOllama,
                   "ollama:qwen2.5:0.5b-instruct")
    \o ServerEntry("large_model", "ollama", backendOllama,
                   "ollama:mistral:7b-instruct")
    \o CascadeProfiles("small_model", "large_model", "small_model")
    \o CascadeWorkflow

NoResult == [status |-> "none"]
ErrResult(msg) == [status |-> "error", msg |-> msg]

\* the state of a runner that has not been called
RunIdle ==
    /\ rArgs = [turns |-> 0, k |-> 0, backendType |-> "sglang",
                cacheStrategy |-> "flush"]
    /\ rpc = "idle"
    /\ turn = 0
    /\ step = 0
    /\ execID = 0
    /\ taskIndex = 0
    /\ storyContext = <<>>
    /\ ttftPerTurn = <<>>
    /\ tpotPerTurn = <<>>
    /\ latencyPerTurnMs = <<>>
    /\ result = NoResult
    /\ calls = <<>>

\* the state of a cascade runner that has not been called
CascIdle ==
    /\ cArgs = [mode |-> "baseline", numTasks |-> 0,
                lat |-> [next |-> 0, stage |-> <<0, 0, 0>>]]
    /\ cpc = "idle"
    /\ ci = 0
    /\ cStage = 1
    /\ cExecID = 0
    /\ cTaskIndex = 0
    /\ analysisTimes = <<>>
    /\ synthesisTimes = <<>>
    /\ summaryTimes = <<>>
    /\ totalTimes = <<>>
    /\ cResult = NoResult
    /\ cCalls = <<>>

\* runBackgroundNoise not called
HypIdle ==
    /\ noiseRun = [r \in {1, 2} |-> [pc |-> "idle", ctxDone |-> FALSE,
                                     rngDraws |-> 0, prompt |-> <<>>,
                                     interArrival |-> <<>>]]
    /\ genRate = 0

\* the state of a --policy runner that has not been called
PolIdle ==
    pol = [args |-> [turns |-> 0, k |-> 0], pc |-> "idle", turn |-> 0,
           execID |-> 0, taskIndex |-> 0, updatedTaskIndex |-> 0,
           response |-> <<>>, storyContext |-> <<>>, metrics |-> <<>>,
           result |-> NoResult, calls |-> <<>>]

\* the state of a process whose main is not part of the behaviour
MainIdle ==
    /\ flags = [sudo |-> TRUE, tmux |-> TRUE, backendType |-> "sglang",
                cacheStrategy |-> "flush", startSGLang |-> FALSE,
                startVLLM |-> FALSE, output |-> FALSE, noiseRate |-> 0,
                turns |-> 0, k |-> 0]
    /\ mpc = "none"
    /\ exitCode = -1
    /\ defers = <<>>
    /\ waited = 0
    /\ world = [configFile |-> "none", outDir |-> FALSE, logFile |-> "none",
                output |-> "none", container |-> "absent",
                window |-> "absent", killSent |-> FALSE,
                dExitPhase |-> "none"]
    /\ gor = [processExited |-> <<>>, watcher |-> "none", monitor |-> "none",
              daemonMonitorDone |-> "open", noise |-> "none",
              noiseCancelled |-> FALSE, noiseSent |-> 0,
              noiseLog |-> <<>>]
    /\ trace = <<>>

\* no os.Exit yet and no fatal signal: the goroutines of the process run
ProcessAlive == exitCode = -1

(***************************************************************************)
(* Specification of the config synthesizers: Init draws the arguments,     *)
(* the actions write the file.                                             *)
(***************************************************************************)
Policies == {"aggressive_flush", "preserve", "preserve_on_small_turns", "bogus"}
CacheStrategies == {"flush", "preserve"}
BackendTypes == {"sglang", "vllm"}
Backends == {"http://X", "http://X/v1"}
Thresholds == {-1, 0, 1, 32, 100}

SmallBackends == {"http://S", "http://X"}

NoFile == [written |-> FALSE, lines |-> <<>>]

\* the config synthesizers of the two story forms and of model_cascade
StoryConfigFns == {"createConfig", "createStoryFinishingConfig",
                   "createStoryFinishingConfigSGLang"}
CascadeConfigFns == {"createBaselineConfig", "createCascadeConfig",
                     "createOllamaBaselineConfig", "createOllamaCascadeConfig"}

CfgArgSets ==
    [policy : Policies, turns : (-1) .. MaxCfgTurns, backend : Backends,
     model : {"sglang:test-model"}, smallTurnThreshold : Thresholds,
     backendType : BackendTypes, cacheStrategy : CacheStrategies,
     backendSmall : SmallBackends, pathOk : BOOLEAN]

InitCfg ==
    /\ cfgFn \in StoryConfigFns \cup CascadeConfigFns
    /\ cfgArgs \in CfgArgSets
    /\ cfgFn \in CascadeConfigFns =>
          /\ cfgArgs.turns = 0
          /\ cfgArgs.backendType = "sglang"
          /\ cfgArgs.cacheStrategy = "flush"
    /\ cfgFn # "createCascadeConfig" => cfgArgs.backendSmall = "http://S"
    /\ cfgFn # "createConfig" =>
          /\ cfgArgs.policy = "aggressive_flush"
          /\ cfgArgs.smallTurnThreshold = 100
    /\ cfgFn = "createConfig" =>
          /\ cfgArgs.backendType = "sglang"
          /\ cfgArgs.cacheStrategy = "flush"
    /\ cfgFn = "createStoryFinishingConfigSGLang" => cfgArgs.backendType = "sglang"
    /\ cfgOut = NoFile
    /\ RunIdle
    /\ CascIdle
    /\ MainIdle
    /\ PolIdle
    /\ HypIdle
    /\ daemon = "none"
    /\ dExecuted = 0

\* os.WriteFile / os.CreateTemp+Write fail when the path cannot be written
CallCreateConfig ==
    /\ cfgFn = "createConfig"
    /\ ~cfgOut.written
    /\ cfgArgs.pathOk
    /\ cfgOut' = [written |-> TRUE,
                  lines |-> createConfig(cfgArgs.policy, cfgArgs.turns,
                                cfgArgs.backend, cfgArgs.model,
                                cfgArgs.smallTurnThreshold)]
    /\ UNCHANGED <<cfgFn, cfgArgs, runVars, daemonVars, cascVars, mainVars, polVars, hypVars>>

CallCreateStoryFinishingConfig ==
    /\ cfgFn = "createStoryFinishingConfig"
    /\ ~cfgOut.written
    /\ cfgArgs.pathOk
    /\ cfgOut' = [written |-> TRUE,
                  lines |-> createStoryFinishingConfig(cfgArgs.backendType,
                                cfgArgs.backend, cfgArgs.cacheStrategy)]
    /\ UNCHANGED <<cfgFn, cfgArgs, runVars, daemonVars, cascVars, mainVars, polVars, hypVars>>

CallCreateStoryFinishingConfigSGLang ==
    /\ cfgFn = "createStoryFinishingConfigSGLang"
    /\ ~cfgOut.written
    /\ cfgArgs.pathOk
    /\ cfgOut' = [written |-> TRUE,
                  lines |-> createStoryFinishingConfigSGLang(cfgArgs.backend,
                                cfgArgs.cacheStrategy)]
    /\ UNCHANGED <<cfgFn, cfgArgs, runVars, daemonVars, cascVars, mainVars, polVars, hypVars>>

\* lines 198-330 of model_cascade: each ends with os.WriteFile(path, ...)
CallCreateBaselineConfig ==
    /\ cfgFn = "createBaselineConfig"
    /\ ~cfgOut.written
    /\ cfgArgs.pathOk
    /\ cfgOut' = [written |-> TRUE,
                  lines |-> createBaselineConfig(cfgArgs.backend)]
    /\ UNCHANGED <<cfgFn, cfgArgs, runVars, daemonVars, cascVars, mainVars, polVars, hypVars>>

CallCreateCascadeConfig ==
    /\ cfgFn = "createCascadeConfig"
    /\ ~cfgOut.written
    /\ cfgArgs.pathOk
    /\ cfgOut' = [written |-> TRUE,
                  lines |-> createCascadeConfig(cfgArgs.backendSmall,
                                               cfgArgs.backend)]
    /\ UNCHANGED <<cfgFn, cfgArgs, runVars, daemonVars, cascVars, mainVars, polVars, hypVars>>

CallCreateOllamaBaselineConfig ==
    /\ cfgFn = "createOllamaBaselineConfig"
    /\ ~cfgOut.written
    /\ cfgArgs.pathOk
    /\ cfgOut' = [written |-> TRUE,
                  lines |-> createOllamaBaselineConfig(cfgArgs.backend)]
    /\ UNCHANGED <<cfgFn, cfgArgs, runVars, daemonVars, cascVars, mainVars, polVars, hypVars>>

CallCreateOllamaCascadeConfig ==
    /\ cfgFn = "createOllamaCascadeConfig"
    /\ ~cfgOut.written
    /\ cfgArgs.pathOk
    /\ cfgOut' = [written |-> TRUE,
                  lines |-> createOllamaCascadeConfig(cfgArgs.backend)]
    /\ UNCHANGED <<cfgFn, cfgArgs, runVars, daemonVars, cascVars, mainVars, polVars, hypVars>>

NextCfg ==
    \/ CallCreateConfig
    \/ CallCreateStoryFinishingConfig
    \/ CallCreateStoryFinishingConfigSGLang
    \/ CallCreateBaselineConfig
    \/ CallCreateCascadeConfig
    \/ CallCreateOllamaBaselineConfig
    \/ CallCreateOllamaCascadeConfig

SpecCfg == InitCfg /\ [][NextCfg]_vars

(***************************************************************************)
(* The story workload runner: runStoryFinishing                            *)
(***************************************************************************)
TemplateHead == "We are playing a story finishing game. It is your turn. You are only allowed to give me the next "
TemplateMid == " tokens. You must give me exactly the next "
TemplateTail == " tokens to finish the story. The story starts as follows:\n\nOnce upon a time "

\* a prompt that never carries the story
StoryPromptNoContext(k, context) ==
    <<TemplateHead>> \o FmtD(k) \o <<TemplateMid>> \o FmtD(k)
        \o <<TemplateTail>>

\* fmt.Sprintf(storyPromptTemplate, k, k, storyContext)
StoryPrompt(k, context) ==
    <<TemplateHead>> \o FmtD(k) \o <<TemplateMid>> \o FmtD(k)
        \o <<TemplateTail>> \o context

\* a runner that numbers the requests from 1
RequestPrefixOneBased(backendType, cacheStrategy, t) ==
    IF backendType = "vllm" /\ cacheStrategy = "flush"
    THEN <<"Request ">> \o FmtD(t + 1) \o <<".", "\n\n">>
    ELSE <<>>

\* a runner that decorates every vLLM prompt, whatever the strategy
RequestPrefixAnyStrategy(backendType, cacheStrategy, t) ==
    IF backendType = "vllm"
    THEN <<"Request ">> \o FmtD(t) \o <<".", "\n\n">>
    ELSE <<>>

\* if backendType == "vllm" && cacheStrategy == "flush" {
\*     prompt = fmt.Sprintf("Request %d.\n\n", turn) + prompt }
\* evaluated before turn++, so t is the number of turns already executed
RequestPrefix(backendType, cacheStrategy, t) ==
    IF backendType = "vllm" /\ cacheStrategy = "flush"
    THEN <<"Request ">> \o FmtD(t) \o <<".", "\n\n">>
    ELSE <<>>

IsSpace(c) == c \in {" ", "\n", "\t"}

RECURSIVE TrimLeft(_)
TrimLeft(s) ==
    IF Len(s) > 0 /\ IsSpace(s[1]) THEN TrimLeft(Tail(s)) ELSE s

RECURSIVE TrimRight(_)
TrimRight(s) ==
    IF Len(s) > 0 /\ IsSpace(s[Len(s)])
    THEN TrimRight(SubSeq(s, 1, Len(s) - 1)) ELSE s

\* strings.TrimSpace
TrimSpace(s) == TrimRight(TrimLeft(s))

\* a runner that appends every answer, empty or not
AppendContentAlways(context, content) ==
    IF context # <<>> THEN context \o <<" ">> \o content ELSE content

\* the story after a turn that answered content
AppendContent(context, content) ==
    IF content # <<>>
    THEN IF context # <<>> THEN context \o <<" ">> \o content ELSE content
    ELSE context

RECURSIVE SumSeq(_)
SumSeq(x) == IF Len(x) = 0 THEN 0 ELSE x[1] + SumSeq(Tail(x))

\* a mean that leaves the first turn out, as a warm-up
avgSkipFirst(x) ==
    IF Len(x) < 2 THEN [num |-> 0, den |-> 1]
    ELSE [num |-> SumSeq(Tail(x)), den |-> Len(x) - 1]

\* avg := func(x []float64) float64: the quotient num/den, 0 for no entry
avg(x) ==
    IF Len(x) = 0 THEN [num |-> 0, den |-> 1]
    ELSE [num |-> SumSeq(x), den |-> Len(x)]

\* an outer loop that ends once a handle was started
OuterLoopCondOneHandle(t, turns) == t < turns /\ execID = 0

\* for turn < turns
OuterLoopCond(t, turns) == t < turns

\* an inner loop that runs one slot per handle
InnerLoopCondOneSlot(s, t, turns) == s < 1 /\ t < turns

\* an inner loop that forgets to test the turn counter
InnerLoopCondStepOnly(s, t, turns) == s < 2

\* for step := 0; step < 2 && turn < turns; step++
InnerLoopCond(s, t, turns) == s < 2 /\ t < turns

\* what ExecuteTask can answer: content, metrics block (or none), and the
\* wall-clock time the runner measures around the call
NoMetrics == [present |-> FALSE, ttft |-> 0, tpot |-> 0]
Metrics(a, b) == [present |-> TRUE, ttft |-> a, tpot |-> b]
Responses ==
    {[content |-> <<"a">>, metrics |-> Metrics(10, 2), elapsed |-> 20],
     [content |-> <<" ", "b", " ">>, metrics |-> Metrics(30, 4), elapsed |-> 40],
     [content |-> <<" ">>, metrics |-> NoMetrics, elapsed |-> 5],
     [content |-> <<"c", " ", "d">>, metrics |-> NoMetrics, elapsed |-> 50]}

Call(op, id, idx, prompt) ==
    [op |-> op, execID |-> id, taskIndex |-> idx, prompt |-> prompt]

\* entry of runStoryFinishing(ctx, orlaURL, backendType, cacheStrategy, turns, k)
RunEntered(args) ==
    /\ rArgs = args
    /\ rpc = "outer"
    /\ turn = 0
    /\ step = 0
    /\ execID = 0
    /\ taskIndex = 0
    /\ storyContext = <<>>
    /\ ttftPerTurn = <<>>
    /\ tpotPerTurn = <<>>
    /\ latencyPerTurnMs = <<>>
    /\ result = NoResult
    /\ calls = <<>>

\* the daemons a runner is put against: "running" answers what it likes,
\* "completing" reports complete on every handle, "twoSlots" offers the two
\* task slots of the story workflow on every handle; the last two never fail
DaemonKinds == {"running", "completing", "twoSlots"}

\* a daemon RPC is answered only by a live daemon; any RPC may fail
DaemonAnswers == daemon \in DaemonKinds

\* the RPC comes back with an error
DaemonFails == daemon \notin {"completing", "twoSlots"}

\* GetNextTask answers with a task slot
SlotOffered ==
    \/ daemon = "running"
    \/ daemon = "twoSlots" /\ dExecuted < 2

\* GetNextTask answers complete
CompleteAnswered ==
    \/ daemon \in {"running", "completing"}
    \/ daemon = "twoSlots" /\ dExecuted >= 2

\* execID, err := client.StartWorkflow(ctx, "story_finishing_game")
StartWorkflow ==
    /\ ProcessAlive
    /\ rpc = "outer"
    /\ OuterLoopCond(turn, rArgs.turns)
    /\ execID < MaxHandles
    /\ calls' = Append(calls, Call("StartWorkflow", 0, 0, <<>>))
    /\ \/ /\ DaemonAnswers
          /\ execID' = execID + 1
          /\ dExecuted' = 0
          /\ step' = 0
          /\ rpc' = "next"
          /\ UNCHANGED result
       \/ /\ DaemonFails
          /\ rpc' = "failed"
          /\ result' = ErrResult("start workflow")
          /\ UNCHANGED <<execID, dExecuted, step>>
    /\ UNCHANGED <<rArgs, turn, taskIndex, storyContext, ttftPerTurn,
                   tpotPerTurn, latencyPerTurnMs, daemon, cfgVars, cascVars, mainVars, polVars, hypVars>>

\* a runner that asks the same handle again
OnCompleteAskAgain == "next"

\* if complete { break }: on to the test of the outer loop
OnComplete == "outer"

\* _, taskIndex, complete, _, err := client.GetNextTask(ctx, execID)
GetNextTask ==
    /\ ProcessAlive
    /\ rpc = "next"
    /\ calls' = Append(calls, Call("GetNextTask", execID, 0, <<>>))
    /\ \/ /\ SlotOffered            \* a task slot
          /\ taskIndex' = dExecuted
          /\ rpc' = "exec"
          /\ UNCHANGED result
       \/ /\ CompleteAnswered       \* complete: break
          /\ rpc' = OnComplete
          /\ UNCHANGED <<taskIndex, result>>
       \/ /\ DaemonFails
          /\ rpc' = "failed"
          /\ result' = ErrResult("get next task")
          /\ UNCHANGED taskIndex
    /\ UNCHANGED <<rArgs, turn, step, execID, storyContext, ttftPerTurn,
                   tpotPerTurn, latencyPerTurnMs, daemonVars, cfgVars, cascVars, mainVars, polVars, hypVars>>

\* the prompt of the turn about to be executed
TurnPrompt ==
    RequestPrefix(rArgs.backendType, rArgs.cacheStrategy, turn)
        \o StoryPrompt(rArgs.k, storyContext)

\* a runner that records the wall-clock time as the time to first token
TtftMsElapsed(resp) == resp.elapsed

\* var ttftMs, tpotMs float64; if resp.Metrics != nil { ttftMs = ...; tpotMs = ... }
TtftMs(resp) == IF resp.metrics.present THEN resp.metrics.ttft ELSE 0

TpotMs(resp) == IF resp.metrics.present THEN resp.metrics.tpot ELSE 0

\* resp, err := client.ExecuteTask(...) and the rest of the loop body
ExecuteTask ==
    /\ ProcessAlive
    /\ rpc = "exec"
    /\ calls' = Append(calls, Call("ExecuteTask", execID, taskIndex, TurnPrompt))
    /\ \/ /\ DaemonAnswers
          /\ \E resp \in Responses :
                /\ storyContext' =
                      AppendContent(storyContext, TrimSpace(resp.content))
                /\ latencyPerTurnMs' = Append(latencyPerTurnMs, resp.elapsed)
                /\ ttftPerTurn' = Append(ttftPerTurn, TtftMs(resp))
                /\ tpotPerTurn' = Append(tpotPerTurn, TpotMs(resp))
          /\ turn' = turn + 1
          /\ step' = step + 1
          /\ dExecuted' = dExecuted + 1
          /\ rpc' = IF InnerLoopCond(step + 1, turn + 1, rArgs.turns)
                    THEN "next" ELSE "outer"
          /\ UNCHANGED result
       \/ /\ DaemonFails
          /\ rpc' = "failed"
          /\ result' = ErrResult("execute task")
          /\ UNCHANGED <<storyContext, latencyPerTurnMs, ttftPerTurn,
                         tpotPerTurn, turn, step, dExecuted>>
    /\ UNCHANGED <<rArgs, execID, taskIndex, daemon, cfgVars, cascVars, mainVars, polVars, hypVars>>

\* the outer loop ends: build and return the result map
ReturnResults ==
    /\ ProcessAlive
    /\ rpc = "outer"
    /\ ~OuterLoopCond(turn, rArgs.turns)
    /\ rpc' = "done"
    /\ result' = [status |-> "ok",
                  turns |-> rArgs.turns,
                  k |-> rArgs.k,
                  avg_ttft_ms |-> avg(ttftPerTurn),
                  avg_tpot_ms |-> avg(tpotPerTurn),
                  ttft_per_turn |-> ttftPerTurn,
                  tpot_per_turn |-> tpotPerTurn,
                  latency_per_turn_ms |-> latencyPerTurnMs,
                  story_length_chars |-> Len(storyContext),
                  story |-> storyContext]
    /\ UNCHANGED <<rArgs, turn, step, execID, taskIndex, storyContext,
                   ttftPerTurn, tpotPerTurn, latencyPerTurnMs, calls,
                   daemonVars, cfgVars, cascVars, mainVars, polVars, hypVars>>

(***************************************************************************)
(* Specification of the runner alone, against a daemon that stays up       *)
(***************************************************************************)
TokenCounts == {4, 32}

RunArgSets ==
    [turns : (-1) .. MaxTurns, k : TokenCounts, backendType : BackendTypes,
     cacheStrategy : CacheStrategies]

CfgIdle ==
    /\ cfgFn = "none"
    /\ cfgArgs = [policy |-> "aggressive_flush", turns |-> 0,
                  backend |-> "http://X", model |-> "sglang:test-model",
                  smallTurnThreshold |-> 100, backendType |-> "sglang",
                  cacheStrategy |-> "flush", backendSmall |-> "http://S",
                  pathOk |-> TRUE]
    /\ cfgOut = NoFile

InitRun ==
    /\ \E args \in RunArgSets : RunEntered(args)
    /\ daemon = "running"
    /\ dExecuted = 0
    /\ CfgIdle
    /\ CascIdle
    /\ MainIdle
    /\ PolIdle
    /\ HypIdle

NextRun ==
    \/ StartWorkflow
    \/ GetNextTask
    \/ ExecuteTask
    \/ ReturnResults

SpecRun == InitRun /\ [][NextRun]_vars

(***************************************************************************)
(* The runner against each kind of daemon, scheduled until it returns      *)
(***************************************************************************)
InitRunDaemons ==
    /\ \E args \in RunArgSets :
          /\ args.k = 4
          /\ args.backendType = "sglang"
          /\ RunEntered(args)
    /\ daemon \in DaemonKinds
    /\ dExecuted = 0
    /\ CfgIdle
    /\ CascIdle
    /\ MainIdle
    /\ PolIdle
    /\ HypIdle

SpecRunDaemons ==
    InitRunDaemons /\ [][NextRun]_vars /\ WF_vars(NextRun)

(***************************************************************************)
(* The cascade workload runner: runExperiment of model_cascade             *)
(***************************************************************************)
\* len(tasks): the fixed list of issue descriptions
NumIssues == 20

\* for i := 0; i < numTasks && i < len(tasks); i++
CascadeLoopCond(i, numTasks) == i < numTasks /\ i < NumIssues

\* task := tasks[i%len(tasks)]
IssueOf(i) == i % NumIssues

StageNames == <<"analysis", "synthesis", "summary">>

\* max-token budgets of the three ExecuteTask calls
StageMaxTokens == <<50, 150, 30>>

\* prompt1 / prompt2 / prompt3: the summary prompt carries the issue only
StagePrompt(stage, i) ==
    [text |-> StageNames[stage],
     issue |-> IssueOf(i),
     code |-> IF stage = 3 THEN -1 ELSE IssueOf(i)]

CCall(op, id, idx, prompt, maxTokens, answer) ==
    [op |-> op, execID |-> id, taskIndex |-> idx, prompt |-> prompt,
     maxTokens |-> maxTokens, answer |-> answer]

NoPrompt == [text |-> "", issue |-> -1, code |-> -1]

\* average(values []float64): the quotient num/den, 0 for no entry
average(values) ==
    IF Len(values) = 0 THEN [num |-> 0, den |-> 1]
    ELSE [num |-> SumSeq(values), den |-> Len(values)]

\* entry of runExperiment(ctx, orlaURL, mode, numTasks)
CascEntered(args) ==
    /\ cArgs = args
    /\ cpc = "loop"
    /\ ci = 0
    /\ cStage = 1
    /\ cExecID = 0
    /\ cTaskIndex = 0
    /\ analysisTimes = <<>>
    /\ synthesisTimes = <<>>
    /\ summaryTimes = <<>>
    /\ totalTimes = <<>>
    /\ cResult = NoResult
    /\ cCalls = <<>>

\* execID, err := client.StartWorkflow(ctx, "task_processor")
CascStartWorkflow ==
    /\ ProcessAlive
    /\ cpc = "loop"
    /\ CascadeLoopCond(ci, cArgs.numTasks)
    /\ \/ /\ DaemonAnswers
          /\ cCalls' = Append(cCalls,
                CCall("StartWorkflow", 0, 0, StagePrompt(1, ci), 0, "ok"))
          /\ cExecID' = cExecID + 1
          /\ dExecuted' = 0
          /\ cStage' = 1
          /\ cpc' = "next"
          /\ UNCHANGED cResult
       \/ /\ cCalls' = Append(cCalls,
                CCall("StartWorkflow", 0, 0, StagePrompt(1, ci), 0, "err"))
          /\ cpc' = "failed"
          /\ cResult' = ErrResult("failed to start workflow")
          /\ UNCHANGED <<cExecID, dExecuted, cStage>>
    /\ UNCHANGED <<cArgs, ci, cTaskIndex, analysisTimes, synthesisTimes,
                   summaryTimes, totalTimes, daemon, cfgVars, runVars, mainVars, polVars, hypVars>>

\* _, taskIndexN, complete, _, err := client.GetNextTask(ctx, execID)
CascGetNextTask ==
    /\ ProcessAlive
    /\ cpc = "next"
    /\ \/ /\ DaemonAnswers          \* a task slot
          /\ cCalls' = Append(cCalls,
                CCall("GetNextTask", cExecID, 0, NoPrompt, 0, "ok"))
          /\ cTaskIndex' = dExecuted
          /\ cpc' = "exec"
          /\ UNCHANGED cResult
       \/ /\ DaemonAnswers          \* complete: break out of the task loop
          /\ cCalls' = Append(cCalls,
                CCall("GetNextTask", cExecID, 0, NoPrompt, 0, "complete"))
          /\ cpc' = "ret"
          /\ UNCHANGED <<cTaskIndex, cResult>>
       \/ /\ cCalls' = Append(cCalls,
                CCall("GetNextTask", cExecID, 0, NoPrompt, 0, "err"))
          /\ cpc' = "failed"
          /\ cResult' = ErrResult("failed to get task")
          /\ UNCHANGED cTaskIndex
    /\ UNCHANGED <<cArgs, ci, cStage, cExecID, analysisTimes, synthesisTimes,
                   summaryTimes, totalTimes, daemonVars, cfgVars, runVars, mainVars, polVars, hypVars>>

\* _, err = client.ExecuteTask(taskCtx, execID, taskIndexN, promptN, budget)
\* and the bookkeeping that follows it, up to the next daemon RPC
CascExecuteTask ==
    /\ ProcessAlive
    /\ cpc = "exec"
    /\ \/ /\ DaemonAnswers
          /\ cCalls' = Append(cCalls,
                CCall("ExecuteTask", cExecID, cTaskIndex,
                      StagePrompt(cStage, ci), StageMaxTokens[cStage], "ok"))
          /\ dExecuted' = dExecuted + 1
          /\ analysisTimes' =
                IF cStage = 1
                THEN Append(analysisTimes, cArgs.lat.stage[1])
                ELSE analysisTimes
          /\ synthesisTimes' =
                IF cStage = 2
                THEN Append(synthesisTimes, cArgs.lat.stage[2])
                ELSE synthesisTimes
          /\ summaryTimes' =
                IF cStage = 3
                THEN Append(summaryTimes, cArgs.lat.stage[3])
                ELSE summaryTimes
          /\ IF cStage = 3
             THEN /\ totalTimes' = Append(totalTimes,
                        3 * cArgs.lat.next + SumSeq(cArgs.lat.stage))
                  /\ ci' = ci + 1
                  /\ cStage' = 1
                  /\ cpc' = "loop"
             ELSE /\ cStage' = cStage + 1
                  /\ cpc' = "next"
                  /\ UNCHANGED <<totalTimes, ci>>
          /\ UNCHANGED cResult
       \/ /\ cCalls' = Append(cCalls,
                CCall("ExecuteTask", cExecID, cTaskIndex,
                      StagePrompt(cStage, ci), StageMaxTokens[cStage], "err"))
          /\ cpc' = "failed"
          /\ cResult' = ErrResult("failed to execute task")
          /\ UNCHANGED <<dExecuted, analysisTimes, synthesisTimes,
                         summaryTimes, totalTimes, ci, cStage>>
    /\ UNCHANGED <<cArgs, cExecID, cTaskIndex, daemon, cfgVars, runVars, mainVars, polVars, hypVars>>

\* the task loop ends (its condition fails, or a break): return the result map
CascReturnResults ==
    /\ ProcessAlive
    /\ \/ cpc = "ret"
       \/ cpc = "loop" /\ ~CascadeLoopCond(ci, cArgs.numTasks)
    /\ cpc' = "done"
    /\ cResult' = [status |-> "ok",
                   mode |-> cArgs.mode,
                   num_tasks |-> cArgs.numTasks,
                   avg_analysis_ms |-> average(analysisTimes),
                   avg_synthesis_ms |-> average(synthesisTimes),
                   avg_summary_ms |-> average(summaryTimes),
                   avg_total_ms |-> average(totalTimes),
                   analysis_times |-> analysisTimes,
                   synthesis_times |-> synthesisTimes,
                   summary_times |-> summaryTimes,
                   total_times |-> totalTimes]
    /\ UNCHANGED <<cArgs, ci, cStage, cExecID, cTaskIndex, analysisTimes,
                   synthesisTimes, summaryTimes, totalTimes, cCalls,
                   daemonVars, cfgVars, runVars, mainVars, polVars, hypVars>>

(***************************************************************************)
(* Specification of the cascade runner alone, against a daemon that stays  *)
(* up                                                                      *)
(***************************************************************************)
CascadeModes == {"baseline", "cascade"}

\* stage latencies the environment shows in one run (ms)
LatencyProfiles ==
    {[next |-> 1, stage |-> <<40, 120, 25>>],
     [next |-> 2, stage |-> <<15, 130, 10>>]}

CascArgSets ==
    [mode : CascadeModes, numTasks : (-1) .. MaxNumTasks, lat : LatencyProfiles]

InitCasc ==
    /\ \E args \in CascArgSets : CascEntered(args)
    /\ daemon = "running"
    /\ dExecuted = 0
    /\ CfgIdle
    /\ RunIdle
    /\ MainIdle
    /\ PolIdle
    /\ HypIdle

NextCasc ==
    \/ CascStartWorkflow
    \/ CascGetNextTask
    \/ CascExecuteTask
    \/ CascReturnResults

SpecCasc == InitCasc /\ [][NextCasc]_vars

(***************************************************************************)
(* main of the story orchestrator (--cache-strategy form): its deferred    *)
(* calls, its log.Fatalf exits, the exit watcher, the daemon monitor and   *)
(* the noise generator                                                     *)
(***************************************************************************)

\* for waited < 60*time.Second, one time.Sleep(500 * time.Millisecond) each
ReadyDeadlineTicks == 120

\* a loop that allows one more sleep
DeadlineExceededLate(w) == w > ReadyDeadlineTicks

\* if waited >= 60*time.Second (if waited >= maxWait)
DeadlineExceeded(w) == w >= ReadyDeadlineTicks

\* the checks of main on its flags, in the order of the code; "" when all pass
FlagError(f) ==
    IF f.backendType \notin {"sglang", "vllm"} THEN "backend-type"
    ELSE IF f.startSGLang /\ f.startVLLM THEN "both engines"
    ELSE IF f.startVLLM /\ f.backendType # "vllm" THEN "start-vllm"
    ELSE IF f.startSGLang /\ f.backendType # "sglang" THEN "start-sglang"
    ELSE IF f.cacheStrategy \notin {"flush", "preserve"} THEN "cache-strategy"
    ELSE ""

\* os.Exit(code): the process ends at once and no deferred call runs
Exit(code) ==
    /\ exitCode' = code
    /\ mpc' = "exited"

\* log.Fatalf(...): the message is logged, then os.Exit(1)
Fatalf == Exit(1)

\* one more external action in the order of execution
Did(ev) == trace' = Append(trace, ev)

\* a deferred call registered first runs first (not what Go does)
DeferFifo(f) == defers' = defers \o <<f>>

\* defer f(): f runs when main returns, after the calls deferred later
Defer(f) == defers' = <<f>> \o defers

\* sudoPassword := os.Getenv("SUDO_PASSWORD"); empty is fatal
CheckSudo ==
    /\ ProcessAlive
    /\ mpc = "start"
    /\ IF flags.sudo THEN mpc' = "killall" /\ UNCHANGED exitCode
       ELSE Fatalf
    /\ UNCHANGED <<flags, defers, waited, world, gor, trace>>
    /\ UNCHANGED <<cfgVars, runVars, daemonVars, cascVars, polVars, hypVars>>

\* exec.Command("killall", "orla").Run(), outcome ignored; flag.Parse()
KillAllOrla ==
    /\ ProcessAlive
    /\ mpc = "killall"
    /\ Did("killall")
    /\ mpc' = "validate"
    /\ UNCHANGED <<flags, exitCode, defers, waited, world, gor>>
    /\ UNCHANGED <<cfgVars, runVars, daemonVars, cascVars, polVars, hypVars>>

\* the flag checks of main, each fatal
ValidateFlags ==
    /\ ProcessAlive
    /\ mpc = "validate"
    /\ IF FlagError(flags) # "" THEN Fatalf
       ELSE /\ mpc' = IF flags.output THEN "mkdir" ELSE "config"
            /\ UNCHANGED exitCode
    /\ UNCHANGED <<flags, defers, waited, world, gor, trace>>
    /\ UNCHANGED <<cfgVars, runVars, daemonVars, cascVars, polVars, hypVars>>

\* os.MkdirAll(filepath.Dir(*output), 0755)
MkdirOutput ==
    /\ ProcessAlive
    /\ mpc = "mkdir"
    /\ \/ /\ world' = [world EXCEPT !.outDir = TRUE]
          /\ Did("mkdir")
          /\ mpc' = "config"
          /\ UNCHANGED exitCode
       \/ /\ Fatalf
          /\ UNCHANGED <<world, trace>>
    /\ UNCHANGED <<flags, defers, waited, gor>>
    /\ UNCHANGED <<cfgVars, runVars, daemonVars, cascVars, polVars, hypVars>>

\* which engine main starts itself: "sglang", "vllm" or "none"
OwnEngine ==
    IF flags.startSGLang THEN "sglang"
    ELSE IF flags.startVLLM THEN "vllm"
    ELSE "none"

\* configFile, err := createStoryFinishingConfig(...); defer os.Remove(configFile)
WriteConfigFile ==
    /\ ProcessAlive
    /\ mpc = "config"
    /\ \/ /\ world' = [world EXCEPT !.configFile = "present"]
          /\ Did("config_written")
          /\ Defer("removeConfig")
          /\ mpc' = IF OwnEngine # "none" THEN "eng_killwin" ELSE "backend_check"
          /\ UNCHANGED exitCode
       \/ /\ Fatalf
          /\ UNCHANGED <<world, trace, defers>>
    /\ UNCHANGED <<flags, waited, gor>>
    /\ UNCHANGED <<cfgVars, runVars, daemonVars, cascVars, polVars, hypVars>>

\* start*InTmux: tmux kill-window (outcome ignored), then the TMUX check
EngKillWindow ==
    /\ ProcessAlive
    /\ mpc = "eng_killwin"
    /\ world' = [world EXCEPT !.window = "absent"]
    /\ Did("win_kill")
    /\ IF flags.tmux THEN mpc' = "eng_rm" /\ UNCHANGED exitCode
       ELSE Fatalf
    /\ UNCHANGED <<flags, defers, waited, gor>>
    /\ UNCHANGED <<cfgVars, runVars, daemonVars, cascVars, polVars, hypVars>>

\* start*InTmux: sudo docker rm -f <container>; a failure is returned
EngRemoveContainer ==
    /\ ProcessAlive
    /\ mpc = "eng_rm"
    /\ \/ /\ world' = [world EXCEPT !.container = "absent"]
          /\ Did("container_rm")
          /\ mpc' = "eng_setenv"
          /\ UNCHANGED exitCode
       \/ /\ Fatalf
          /\ UNCHANGED <<world, trace>>
    /\ UNCHANGED <<flags, defers, waited, gor>>
    /\ UNCHANGED <<cfgVars, runVars, daemonVars, cascVars, polVars, hypVars>>

\* start*InTmux: tmux set-environment SUDO_PASSWORD; a failure is returned
EngSetEnv ==
    /\ ProcessAlive
    /\ mpc = "eng_setenv"
    /\ \/ /\ Did("tmux_setenv")
          /\ mpc' = "eng_newwin"
          /\ UNCHANGED exitCode
       \/ /\ Fatalf
          /\ UNCHANGED trace
    /\ UNCHANGED <<flags, defers, waited, world, gor>>
    /\ UNCHANGED <<cfgVars, runVars, daemonVars, cascVars, polVars, hypVars>>

\* start*InTmux: tmux new-window running docker run; then, in main,
\* defer stopSGLangTmux() / defer stopVLLMTmux()
EngNewWindow ==
    /\ ProcessAlive
    /\ mpc = "eng_newwin"
    /\ \/ /\ world' = [world EXCEPT !.window = "open", !.container = "running"]
          /\ Did("win_new")
          /\ Defer("stopEngine")
          /\ mpc' = "eng_wait"
          /\ UNCHANGED exitCode
       \/ /\ Fatalf
          /\ UNCHANGED <<world, trace, defers>>
    /\ UNCHANGED <<flags, waited, gor>>
    /\ UNCHANGED <<cfgVars, runVars, daemonVars, cascVars, polVars, hypVars>>

\* waitForBackendReady(backendType, backend, 5*time.Minute)
EngWaitReady ==
    /\ ProcessAlive
    /\ mpc = "eng_wait"
    /\ \/ /\ Did("engine_ready")
          /\ mpc' = "backend_check"
          /\ UNCHANGED exitCode
       \/ /\ Fatalf
          /\ UNCHANGED trace
    /\ UNCHANGED <<flags, defers, waited, world, gor>>
    /\ UNCHANGED <<cfgVars, runVars, daemonVars, cascVars, polVars, hypVars>>

\* checkBackendReady(*backendType, *backend)
BackendCheck ==
    /\ ProcessAlive
    /\ mpc = "backend_check"
    /\ \/ /\ Did("backend_ok")
          /\ mpc' = "log_create"
          /\ UNCHANGED exitCode
       \/ /\ Fatalf
          /\ UNCHANGED trace
    /\ UNCHANGED <<flags, defers, waited, world, gor>>
    /\ UNCHANGED <<cfgVars, runVars, daemonVars, cascVars, polVars, hypVars>>

\* daemonLog, err := os.Create(logFile); defer daemonLog.Close()
CreateDaemonLog ==
    /\ ProcessAlive
    /\ mpc = "log_create"
    /\ \/ /\ world' = [world EXCEPT !.logFile = "open"]
          /\ Did("log_created")
          /\ Defer("closeLog")
          /\ mpc' = "spawn"
          /\ UNCHANGED exitCode
       \/ /\ Fatalf
          /\ UNCHANGED <<world, trace, defers>>
    /\ UNCHANGED <<flags, waited, gor>>
    /\ UNCHANGED <<cfgVars, runVars, daemonVars, cascVars, polVars, hypVars>>

\* cmd.Start(); defer cmd.Process.Kill(); processExited := make(chan error, 1);
\* go func() { processExited <- cmd.Wait() }()
SpawnDaemon ==
    /\ ProcessAlive
    /\ mpc = "spawn"
    /\ \/ /\ daemon' = "running"
          /\ Did("daemon_spawned")
          /\ Defer("killDaemon")
          /\ gor' = [gor EXCEPT !.watcher = "waiting"]
          /\ mpc' = "ready"
          /\ UNCHANGED exitCode
       \/ /\ Fatalf
          /\ UNCHANGED <<daemon, trace, defers, gor>>
    /\ UNCHANGED <<flags, waited, world, dExecuted>>
    /\ UNCHANGED <<cfgVars, runVars, cascVars, polVars, hypVars>>

\* one iteration of the readiness loop: the non-blocking receive from
\* processExited, the health probe, the 60 s deadline, the 500 ms sleep
ReadyIteration ==
    /\ ProcessAlive
    /\ mpc = "ready"
    /\ IF gor.processExited # <<>>
       THEN /\ Fatalf
            /\ gor' = [gor EXCEPT !.processExited = <<>>]
            /\ UNCHANGED <<waited, trace>>
       ELSE \/ /\ daemon = "running"
               /\ Did("daemon_ready")
               /\ mpc' = "monitor"
               /\ waited' = 0          \* the loop variable goes out of scope
               /\ UNCHANGED <<exitCode, gor>>
            \/ /\ IF DeadlineExceeded(waited)
                  THEN Fatalf /\ UNCHANGED waited
                  ELSE /\ waited' = waited + 1
                       /\ UNCHANGED <<mpc, exitCode>>
               /\ UNCHANGED <<trace, gor>>
    /\ UNCHANGED <<flags, defers, world>>
    /\ UNCHANGED <<cfgVars, runVars, daemonVars, cascVars, polVars, hypVars>>

\* a main that starts the generator for every rate but 0
NoiseEnabledNonZero(rate) == rate # 0

\* if *noiseRate > 0 { ... go runBackgroundNoise(...) }
NoiseEnabled(rate) == rate > 0

\* a main that goes on after a failed run
RunFailedIgnored(r) == FALSE

\* if runErr != nil { log.Fatalf("Experiment failed: %v", runErr) }
RunFailed(r) == r = "failed"

\* a main that forgets the cancel
NoiseCancelNever(noise) == FALSE

\* if noiseCancel != nil { noiseCancel() }: noiseCancel is set exactly when
\* the generator was started
NoiseCancelRaised(noise) == noise # "none"

\* go func() { select { case <-processExited: log.Fatalf; case
\* <-daemonMonitorDone: return } }(); the noise generator when
\* --noise-rate > 0; then the call of runStoryFinishing
StartWorkload ==
    /\ ProcessAlive
    /\ mpc = "monitor"
    /\ gor' = [gor EXCEPT !.monitor = "selecting",
                          !.noise = IF NoiseEnabled(flags.noiseRate)
                                    THEN "top" ELSE "none"]
    /\ trace' = trace \o (IF NoiseEnabled(flags.noiseRate)
                           THEN <<"noise_started">> ELSE <<>>)
                      \o <<"workload_started">>
    /\ rArgs' = [turns |-> flags.turns, k |-> flags.k,
                 backendType |-> flags.backendType,
                 cacheStrategy |-> flags.cacheStrategy]
    /\ rpc' = "outer"
    /\ mpc' = "workload"
    /\ UNCHANGED <<turn, step, execID, taskIndex, storyContext, ttftPerTurn,
                   tpotPerTurn, latencyPerTurnMs, result, calls>>
    /\ UNCHANGED <<flags, exitCode, defers, waited, world>>
    /\ UNCHANGED <<cfgVars, daemonVars, cascVars, polVars, hypVars>>

\* after runStoryFinishing returned: noiseCancel(), close(daemonMonitorDone),
\* then log.Fatalf when the run failed
AfterWorkload ==
    /\ ProcessAlive
    /\ mpc = "workload"
    /\ rpc \in {"done", "failed"}
    /\ gor' = [gor EXCEPT !.daemonMonitorDone = "closed",
                          !.noiseCancelled = NoiseCancelRaised(gor.noise)]
    /\ trace' = trace \o (IF NoiseCancelRaised(gor.noise)
                            THEN <<"noise_cancel">> ELSE <<>>)
                      \o <<"monitor_done">>
    /\ IF RunFailed(rpc) THEN Fatalf
       ELSE mpc' = "write" /\ UNCHANGED exitCode
    /\ UNCHANGED <<flags, defers, waited, world>>
    /\ UNCHANGED <<cfgVars, runVars, daemonVars, cascVars, polVars, hypVars>>

\* if *output != "" { data, _ := json.MarshalIndent(...); _ = os.WriteFile(...) }
WriteResults ==
    /\ ProcessAlive
    /\ mpc = "write"
    /\ IF flags.output
       THEN \/ /\ world' = [world EXCEPT !.output = "written"]
               /\ Did("results_written")
            \/ UNCHANGED <<world, trace>>
       ELSE UNCHANGED <<world, trace>>
    /\ mpc' = "return"
    /\ UNCHANGED <<flags, exitCode, defers, waited, gor>>
    /\ UNCHANGED <<cfgVars, runVars, daemonVars, cascVars, polVars, hypVars>>

\* deferred: if cmd.Process != nil { _ = cmd.Process.Kill() }
DeferredKillDaemon ==
    /\ ProcessAlive
    /\ mpc = "return"
    /\ defers # <<>> /\ Head(defers) = "killDaemon"
    /\ world' = [world EXCEPT !.killSent = TRUE]
    /\ daemon' = "exited"
    /\ Did("daemon_kill")
    /\ defers' = Tail(defers)
    /\ UNCHANGED <<flags, mpc, exitCode, waited, gor, dExecuted>>
    /\ UNCHANGED <<cfgVars, runVars, cascVars, polVars, hypVars>>

\* deferred: _ = daemonLog.Close()
DeferredCloseLog ==
    /\ ProcessAlive
    /\ mpc = "return"
    /\ defers # <<>> /\ Head(defers) = "closeLog"
    /\ world' = [world EXCEPT !.logFile = "closed"]
    /\ Did("log_closed")
    /\ defers' = Tail(defers)
    /\ UNCHANGED <<flags, mpc, exitCode, waited, gor>>
    /\ UNCHANGED <<cfgVars, runVars, daemonVars, cascVars, polVars, hypVars>>

\* stopSGLangTmux / stopVLLMTmux, first command: sudo docker rm -f; a failure
\* is log.Fatalf
StopEngineRemoveContainer ==
    /\ ProcessAlive
    /\ mpc = "return"
    /\ defers # <<>> /\ Head(defers) = "stopEngine"
    /\ \/ /\ world' = [world EXCEPT !.container = "absent"]
          /\ Did("container_rm")
          /\ defers' = <<"stopEngineWindow">> \o Tail(defers)
          /\ UNCHANGED <<mpc, exitCode>>
       \/ /\ Fatalf
          /\ UNCHANGED <<world, trace, defers>>
    /\ UNCHANGED <<flags, waited, gor>>
    /\ UNCHANGED <<cfgVars, runVars, daemonVars, cascVars, polVars, hypVars>>

\* stopSGLangTmux / stopVLLMTmux, second command: tmux kill-window; a failure
\* is logged
StopEngineKillWindow ==
    /\ ProcessAlive
    /\ mpc = "return"
    /\ defers # <<>> /\ Head(defers) = "stopEngineWindow"
    /\ \/ /\ world' = [world EXCEPT !.window = "absent"]
          /\ Did("win_kill")
       \/ UNCHANGED <<world, trace>>
    /\ defers' = Tail(defers)
    /\ UNCHANGED <<flags, mpc, exitCode, waited, gor>>
    /\ UNCHANGED <<cfgVars, runVars, daemonVars, cascVars, polVars, hypVars>>

\* deferred: _ = os.Remove(configFile)
DeferredRemoveConfig ==
    /\ ProcessAlive
    /\ mpc = "return"
    /\ defers # <<>> /\ Head(defers) = "removeConfig"
    /\ world' = [world EXCEPT !.configFile = "removed"]
    /\ Did("config_removed")
    /\ defers' = Tail(defers)
    /\ UNCHANGED <<flags, mpc, exitCode, waited, gor>>
    /\ UNCHANGED <<cfgVars, runVars, daemonVars, cascVars, polVars, hypVars>>

\* main returns once every deferred call has run: exit status 0
MainReturns ==
    /\ ProcessAlive
    /\ mpc = "return"
    /\ defers = <<>>
    /\ Exit(0)
    /\ UNCHANGED <<flags, defers, waited, world, gor, trace>>
    /\ UNCHANGED <<cfgVars, runVars, daemonVars, cascVars, polVars, hypVars>>

\* where main stands when the daemon exits on its own
PhaseOfMain ==
    IF mpc = "ready" THEN "readiness"
    ELSE IF mpc \in {"monitor", "workload"} /\ rpc \notin {"done", "failed"}
         THEN "workload"
    ELSE "after"

\* the daemon child exits on its own
DaemonExits ==
    /\ ProcessAlive
    /\ daemon = "running"
    /\ mpc # "none"
    /\ daemon' = "exited"
    /\ world' = [world EXCEPT !.dExitPhase = PhaseOfMain]
    /\ UNCHANGED <<flags, mpc, exitCode, defers, waited, gor, trace, dExecuted>>
    /\ UNCHANGED <<cfgVars, runVars, cascVars, polVars, hypVars>>

\* exit watcher: processExited <- cmd.Wait()
WatcherSends ==
    /\ ProcessAlive
    /\ gor.watcher = "waiting"
    /\ daemon = "exited"
    /\ gor' = [gor EXCEPT !.watcher = "sent", !.processExited = <<"exit">>]
    /\ UNCHANGED <<flags, mpc, exitCode, defers, waited, world, trace>>
    /\ UNCHANGED <<cfgVars, runVars, daemonVars, cascVars, polVars, hypVars>>

\* daemon monitor, case err := <-processExited: log.Fatalf
MonitorFatal ==
    /\ ProcessAlive
    /\ gor.monitor = "selecting"
    /\ gor.processExited # <<>>
    /\ gor' = [gor EXCEPT !.monitor = "fatal", !.processExited = <<>>]
    /\ Fatalf
    /\ UNCHANGED <<flags, defers, waited, world, trace>>
    /\ UNCHANGED <<cfgVars, runVars, daemonVars, cascVars, polVars, hypVars>>

\* daemon monitor, case <-daemonMonitorDone: return
MonitorReturns ==
    /\ ProcessAlive
    /\ gor.monitor = "selecting"
    /\ gor.daemonMonitorDone = "closed"
    /\ gor' = [gor EXCEPT !.monitor = "returned"]
    /\ UNCHANGED <<flags, mpc, exitCode, defers, waited, world, trace>>
    /\ UNCHANGED <<cfgVars, runVars, daemonVars, cascVars, polVars, hypVars>>

\* runBackgroundNoise, first select, default case: no cancellation is
\* pending, so one more request goroutine is launched and the next
\* inter-arrival delay is drawn
NoiseLaunch ==
    /\ ProcessAlive
    /\ gor.noise = "top"
    /\ ~gor.noiseCancelled
    /\ gor.noiseSent < MaxNoise
    /\ gor' = [gor EXCEPT !.noise = "wait", !.noiseSent = @ + 1,
                          !.noiseLog = Append(@, "sent")]
    /\ UNCHANGED <<flags, mpc, exitCode, defers, waited, world, trace>>
    /\ UNCHANGED <<cfgVars, runVars, daemonVars, cascVars, polVars, hypVars>>

\* runBackgroundNoise, second select, case <-time.After(interArrival)
NoiseTimer ==
    /\ ProcessAlive
    /\ gor.noise = "wait"
    /\ gor' = [gor EXCEPT !.noise = "top"]
    /\ UNCHANGED <<flags, mpc, exitCode, defers, waited, world, trace>>
    /\ UNCHANGED <<cfgVars, runVars, daemonVars, cascVars, polVars, hypVars>>

\* number of entries ev of a log
CountOf(log, ev) == Len(SelectSeq(log, LAMBDA e : e = ev))

\* a request goroutine whose failure ends the generator
LogNoiseFailureAndStop(g) ==
    [g EXCEPT !.noiseLog = Append(@, "failed"), !.noise = "returned"]

\* if err := sendNoiseRequest(...); err != nil { log.Printf(...) }
LogNoiseFailure(g) == [g EXCEPT !.noiseLog = Append(@, "failed")]

\* a request goroutine: sendNoiseRequest returns nil (status 200) or an error
\* (transport error, status other than 200)
NoiseRequestEnds ==
    /\ ProcessAlive
    /\ CountOf(gor.noiseLog, "sent") >
          CountOf(gor.noiseLog, "ok") + CountOf(gor.noiseLog, "failed")
    /\ \/ gor' = [gor EXCEPT !.noiseLog = Append(@, "ok")]
       \/ gor' = LogNoiseFailure(gor)
    /\ UNCHANGED <<flags, mpc, exitCode, defers, waited, world, trace>>
    /\ UNCHANGED <<cfgVars, runVars, daemonVars, cascVars, polVars, hypVars>>

\* runBackgroundNoise, case <-ctx.Done() of either select: return
NoiseReturns ==
    /\ ProcessAlive
    /\ gor.noise \in {"top", "wait"}
    /\ gor.noiseCancelled
    /\ gor' = [gor EXCEPT !.noise = "returned"]
    /\ UNCHANGED <<flags, mpc, exitCode, defers, waited, world, trace>>
    /\ UNCHANGED <<cfgVars, runVars, daemonVars, cascVars, polVars, hypVars>>

\* INT or TERM: main installs no handler, the runtime ends the process at
\* once; 128 stands for "ended by a signal", whichever of the two it was
Signal ==
    /\ ProcessAlive
    /\ mpc \notin {"none", "start"}
    /\ \E sig \in {"INT", "TERM"} : Exit(128)
    /\ UNCHANGED <<flags, defers, waited, world, gor, trace>>
    /\ UNCHANGED <<cfgVars, runVars, daemonVars, cascVars, polVars, hypVars>>

(***************************************************************************)
(* Specification of the orchestrator process                               *)
(***************************************************************************)
\* the command lines and environments of a run; TMUX is read only by
\* start*InTmux, so it varies only when an engine is to be started
MainFlagSets ==
    {f \in [sudo : BOOLEAN, tmux : BOOLEAN,
            backendType : BackendTypes \cup {"bogus"},
            cacheStrategy : CacheStrategies \cup {"bogus"},
            startSGLang : BOOLEAN, startVLLM : BOOLEAN, output : BOOLEAN,
            noiseRate : {0, 2}, turns : 0 .. MaxMainTurns, k : {32}] :
        f.tmux \/ f.startSGLang \/ f.startVLLM}

InitMain ==
    /\ flags \in MainFlagSets
    /\ mpc = "start"
    /\ exitCode = -1
    /\ defers = <<>>
    /\ waited = 0
    /\ world = [configFile |-> "none", outDir |-> FALSE, logFile |-> "none",
                output |-> "none", container |-> "absent",
                window |-> "absent", killSent |-> FALSE,
                dExitPhase |-> "none"]
    /\ gor = [processExited |-> <<>>, watcher |-> "none", monitor |-> "none",
              daemonMonitorDone |-> "open", noise |-> "none",
              noiseCancelled |-> FALSE, noiseSent |-> 0,
              noiseLog |-> <<>>]
    /\ trace = <<>>
    /\ daemon = "none"
    /\ dExecuted = 0
    /\ CfgIdle
    /\ RunIdle
    /\ CascIdle
    /\ PolIdle
    /\ HypIdle

NextMain ==
    \/ CheckSudo
    \/ KillAllOrla
    \/ ValidateFlags
    \/ MkdirOutput
    \/ WriteConfigFile
    \/ EngKillWindow
    \/ EngRemoveContainer
    \/ EngSetEnv
    \/ EngNewWindow
    \/ EngWaitReady
    \/ BackendCheck
    \/ CreateDaemonLog
    \/ SpawnDaemon
    \/ ReadyIteration
    \/ StartWorkload
    \/ StartWorkflow
    \/ GetNextTask
    \/ ExecuteTask
    \/ ReturnResults
    \/ AfterWorkload
    \/ WriteResults
    \/ DeferredKillDaemon
    \/ DeferredCloseLog
    \/ StopEngineRemoveContainer
    \/ StopEngineKillWindow
    \/ DeferredRemoveConfig
    \/ MainReturns
    \/ DaemonExits
    \/ WatcherSends
    \/ MonitorFatal
    \/ MonitorReturns
    \/ NoiseReturns
    \/ Signal

SpecMain == InitMain /\ [][NextMain]_vars

(***************************************************************************)
(* Specification of the orchestrator process run against an engine that    *)
(* is already up, with the requests of the noise generator (SpecMain       *)
(* leaves the generator's requests out)                                    *)
(***************************************************************************)
NoiseRates == {-1, 0, 2}

NoiseFlagSets ==
    [sudo : {TRUE}, tmux : {TRUE}, backendType : {"sglang"},
     cacheStrategy : {"flush"}, startSGLang : {FALSE}, startVLLM : {FALSE},
     output : BOOLEAN, noiseRate : NoiseRates, turns : 0 .. MaxMainTurns,
     k : {32}]

InitNoiseMain ==
    /\ flags \in NoiseFlagSets
    /\ mpc = "start"
    /\ exitCode = -1
    /\ defers = <<>>
    /\ waited = 0
    /\ world = [configFile |-> "none", outDir |-> FALSE, logFile |-> "none",
                output |-> "none", container |-> "absent",
                window |-> "absent", killSent |-> FALSE,
                dExitPhase |-> "none"]
    /\ gor = [processExited |-> <<>>, watcher |-> "none", monitor |-> "none",
              daemonMonitorDone |-> "open", noise |-> "none",
              noiseCancelled |-> FALSE, noiseSent |-> 0,
              noiseLog |-> <<>>]
    /\ trace = <<>>
    /\ daemon = "none"
    /\ dExecuted = 0
    /\ CfgIdle
    /\ RunIdle
    /\ CascIdle
    /\ PolIdle
    /\ HypIdle

NextNoiseMain ==
    \/ CheckSudo
    \/ KillAllOrla
    \/ ValidateFlags
    \/ MkdirOutput
    \/ WriteConfigFile
    \/ BackendCheck
    \/ CreateDaemonLog
    \/ SpawnDaemon
    \/ ReadyIteration
    \/ StartWorkload
    \/ StartWorkflow
    \/ GetNextTask
    \/ ExecuteTask
    \/ ReturnResults
    \/ AfterWorkload
    \/ WriteResults
    \/ DeferredKillDaemon
    \/ DeferredCloseLog
    \/ DeferredRemoveConfig
    \/ MainReturns
    \/ DaemonExits
    \/ WatcherSends
    \/ MonitorFatal
    \/ MonitorReturns
    \/ NoiseLaunch
    \/ NoiseTimer
    \/ NoiseReturns
    \/ Signal

SpecNoiseMain == InitNoiseMain /\ [][NextNoiseMain]_vars

\* the scheduler runs the generator goroutine as long as the process lives
SpecNoiseMainFair == SpecNoiseMain /\ WF_vars(NoiseReturns)

(***************************************************************************)
(* The --policy story orchestrator: runExperiment and main                 *)
(***************************************************************************)
PolicyTemplateHead == "We are playing a story finishing game. It is your turn. You are only \nallowed to give me the next "
PolicyTemplateMid == " tokens. You must give me exactly the next "
PolicyTemplateTail == " \ntokens to finish the story. The story starts as follows:\n\nOnce upon a time "

\* constructPrompt(context, c)
constructPrompt(context, c) ==
    <<PolicyTemplateHead>> \o FmtD(c) \o <<PolicyTemplateMid>> \o FmtD(c)
        \o <<PolicyTemplateTail>> \o context

\* entry of runExperiment(ctx, orlaURL, workflow, turns, k)
PolEntered(args) ==
    [args |-> args, pc |-> "start", turn |-> 0,
     execID |-> 0, taskIndex |-> 0, updatedTaskIndex |-> 0,
     response |-> <<>>, storyContext |-> <<>>, metrics |-> <<>>,
     result |-> NoResult, calls |-> <<>>]

\* return nil, fmt.Errorf(...)
PolFailed(msg, call) ==
    [pol EXCEPT !.pc = "failed", !.result = ErrResult(msg),
                !.calls = Append(@, call)]

\* execID, err := client.StartWorkflow(ctx, workflow); then turn := 1
PolStartWorkflow ==
    /\ ProcessAlive
    /\ pol.pc = "start"
    /\ LET call == Call("StartWorkflow", 0, 0, <<>>) IN
       \/ /\ DaemonAnswers
          /\ pol' = [pol EXCEPT !.execID = 1, !.turn = 1, !.pc = "loop",
                                !.calls = Append(@, call)]
          /\ dExecuted' = 0
       \/ /\ pol' = PolFailed("failed to start workflow", call)
          /\ UNCHANGED dExecuted
    /\ UNCHANGED <<daemon, cfgVars, runVars, cascVars, mainVars, hypVars>>

\* for turn := 1; turn <= turns; turn++
PolLoopCond(t, turns) == t <= turns

\* _, taskIndex, complete, _, err := client.GetNextTask(ctx, execID); break
\* on complete
PolGetNextTask ==
    /\ ProcessAlive
    /\ pol.pc = "loop"
    /\ PolLoopCond(pol.turn, pol.args.turns)
    /\ LET call == Call("GetNextTask", pol.execID, 0, <<>>) IN
       \/ /\ DaemonAnswers
          /\ pol' = [pol EXCEPT !.taskIndex = dExecuted, !.pc = "exec",
                                !.calls = Append(@, call)]
       \/ /\ DaemonAnswers
          /\ pol' = [pol EXCEPT !.pc = "ret", !.calls = Append(@, call)]
       \/ pol' = PolFailed("failed to get next task", call)
    /\ UNCHANGED <<daemonVars, cfgVars, runVars, cascVars, mainVars, hypVars>>

\* one entry of per_turn_metrics
TurnMetric(t, resp, context) ==
    [turn |-> t, total_time_ms |-> resp.elapsed,
     context_size |-> Len(context),
     tokens_generated |-> Len(resp.content) \div 4,
     content |-> resp.content]

\* response, err := client.ExecuteTask(ctx, execID, taskIndex, prompt, k);
\* storyContext += " " + content; metrics = append(metrics, ...)
PolExecuteTask ==
    /\ ProcessAlive
    /\ pol.pc = "exec"
    /\ LET call == Call("ExecuteTask", pol.execID, pol.taskIndex,
                        constructPrompt(pol.storyContext, pol.args.k)) IN
       \/ /\ DaemonAnswers
          /\ \E resp \in Responses :
                LET story == pol.storyContext \o <<" ">> \o resp.content IN
                pol' = [pol EXCEPT
                           !.response = resp.content,
                           !.storyContext = story,
                           !.metrics = Append(@, TurnMetric(pol.turn, resp, story)),
                           !.pc = "updated",
                           !.calls = Append(@, call)]
          /\ dExecuted' = dExecuted + 1
       \/ /\ pol' = PolFailed("failed to execute task", call)
          /\ UNCHANGED dExecuted
    /\ UNCHANGED <<daemon, cfgVars, runVars, cascVars, mainVars, hypVars>>

\* _, updatedTaskIndex, _, _, err := client.GetNextTask(ctx, execID)
PolGetUpdatedIndex ==
    /\ ProcessAlive
    /\ pol.pc = "updated"
    /\ LET call == Call("GetNextTask", pol.execID, 0, <<>>) IN
       \/ /\ DaemonAnswers
          /\ pol' = [pol EXCEPT !.updatedTaskIndex = dExecuted,
                                !.pc = "complete",
                                !.calls = Append(@, call)]
       \/ pol' = PolFailed("failed to get updated task index", call)
    /\ UNCHANGED <<daemonVars, cfgVars, runVars, cascVars, mainVars, hypVars>>

\* client.CompleteTask(ctx, execID, updatedTaskIndex, response); turn++
PolCompleteTask ==
    /\ ProcessAlive
    /\ pol.pc = "complete"
    /\ LET call == Call("CompleteTask", pol.execID, pol.updatedTaskIndex,
                        pol.response) IN
       \/ /\ DaemonAnswers
          /\ pol' = [pol EXCEPT !.turn = @ + 1, !.pc = "loop",
                                !.calls = Append(@, call)]
       \/ pol' = PolFailed("failed to complete task", call)
    /\ UNCHANGED <<daemonVars, cfgVars, runVars, cascVars, mainVars, hypVars>>

\* avgTime: the mean of total_time_ms over metrics[1:], 0 for fewer than two
PolAvgTime(ms) ==
    IF Len(ms) > 1
    THEN [num |-> SumSeq([j \in 1 .. (Len(ms) - 1) |-> ms[j + 1].total_time_ms]),
          den |-> Len(ms) - 1]
    ELSE [num |-> 0, den |-> 1]

\* the loop ends (break or turn > turns): build and return the result map
PolReturnResults ==
    /\ ProcessAlive
    /\ \/ pol.pc = "ret"
       \/ pol.pc = "loop" /\ ~PolLoopCond(pol.turn, pol.args.turns)
    /\ pol' = [pol EXCEPT
                  !.pc = "done",
                  !.result = [status |-> "ok",
                              turns |-> Len(pol.metrics),
                              k |-> pol.args.k,
                              avg_turn_time_ms |-> PolAvgTime(pol.metrics),
                              per_turn_metrics |-> pol.metrics,
                              final_story |-> pol.storyContext]]
    /\ UNCHANGED <<daemonVars, cfgVars, runVars, cascVars, mainVars, hypVars>>

\* modelID := *model; if !strings.Contains(modelID, ":") { "sglang:" + modelID }
ModelID(model) ==
    IF model = "test-model" THEN "sglang:test-model" ELSE model

\* exec.Command("killall", "orla").Run(), outcome ignored; flag.Parse()
PolicyKillAll ==
    /\ ProcessAlive
    /\ mpc = "p_killall"
    /\ Did("killall")
    /\ mpc' = IF flags.output THEN "p_mkdir" ELSE "p_config"
    /\ UNCHANGED <<flags, exitCode, defers, waited, world, gor>>
    /\ UNCHANGED <<cfgVars, runVars, daemonVars, cascVars, polVars, hypVars>>

\* os.MkdirAll(filepath.Dir(*output), 0755)
PolicyMkdir ==
    /\ ProcessAlive
    /\ mpc = "p_mkdir"
    /\ \/ /\ world' = [world EXCEPT !.outDir = TRUE]
          /\ Did("mkdir")
          /\ mpc' = "p_config"
          /\ UNCHANGED exitCode
       \/ /\ Fatalf
          /\ UNCHANGED <<world, trace>>
    /\ UNCHANGED <<flags, defers, waited, gor>>
    /\ UNCHANGED <<cfgVars, runVars, daemonVars, cascVars, polVars, hypVars>>

\* createConfig(configFile, *policy, *turns, *backend, modelID,
\* *smallTurnThreshold); the file is kept
PolicyWriteConfig ==
    /\ ProcessAlive
    /\ mpc = "p_config"
    /\ \/ /\ cfgOut' = [written |-> TRUE,
                        lines |-> createConfig(flags.policy, flags.turns,
                                     flags.backend, ModelID(flags.model),
                                     flags.smallTurnThreshold)]
          /\ world' = [world EXCEPT !.configFile = "present"]
          /\ Did("config_written")
          /\ mpc' = "p_backend"
          /\ UNCHANGED exitCode
       \/ /\ Fatalf
          /\ UNCHANGED <<cfgOut, world, trace>>
    /\ UNCHANGED <<flags, defers, waited, gor, cfgFn, cfgArgs>>
    /\ UNCHANGED <<runVars, daemonVars, cascVars, polVars, hypVars>>

\* checkSGLangReady(*backend)
PolicyBackendCheck ==
    /\ ProcessAlive
    /\ mpc = "p_backend"
    /\ \/ /\ Did("backend_ok")
          /\ mpc' = "p_log"
          /\ UNCHANGED exitCode
       \/ /\ Fatalf
          /\ UNCHANGED trace
    /\ UNCHANGED <<flags, defers, waited, world, gor>>
    /\ UNCHANGED <<cfgVars, runVars, daemonVars, cascVars, polVars, hypVars>>

\* daemonLog, err := os.Create(logFile); defer daemonLog.Close()
PolicyCreateLog ==
    /\ ProcessAlive
    /\ mpc = "p_log"
    /\ \/ /\ world' = [world EXCEPT !.logFile = "open"]
          /\ Did("log_created")
          /\ Defer("closeLog")
          /\ mpc' = "p_spawn"
          /\ UNCHANGED exitCode
       \/ /\ Fatalf
          /\ UNCHANGED <<world, trace, defers>>
    /\ UNCHANGED <<flags, waited, gor>>
    /\ UNCHANGED <<cfgVars, runVars, daemonVars, cascVars, polVars, hypVars>>

\* cmd.Start(); defer cmd.Process.Kill()
PolicySpawnDaemon ==
    /\ ProcessAlive
    /\ mpc = "p_spawn"
    /\ \/ /\ daemon' = "running"
          /\ Did("daemon_spawned")
          /\ Defer("killDaemon")
          /\ mpc' = "p_sleep"
          /\ UNCHANGED exitCode
       \/ /\ Fatalf
          /\ UNCHANGED <<daemon, trace, defers>>
    /\ UNCHANGED <<flags, waited, world, gor, dExecuted>>
    /\ UNCHANGED <<cfgVars, runVars, cascVars, polVars, hypVars>>

\* time.Sleep(2 * time.Second), then the call of runExperiment
PolicySleep ==
    /\ ProcessAlive
    /\ mpc = "p_sleep"
    /\ Did("workload_started")
    /\ pol' = PolEntered([turns |-> flags.turns, k |-> flags.k])
    /\ mpc' = "p_run"
    /\ UNCHANGED <<flags, exitCode, defers, waited, world, gor>>
    /\ UNCHANGED <<cfgVars, runVars, daemonVars, cascVars, hypVars>>

\* runExperiment returned: log.Fatalf on error, else json.MarshalIndent
PolicyAfterRun ==
    /\ ProcessAlive
    /\ mpc = "p_run"
    /\ pol.pc \in {"done", "failed"}
    /\ IF pol.pc = "failed" THEN Fatalf
       ELSE mpc' = "p_write" /\ UNCHANGED exitCode
    /\ UNCHANGED <<flags, defers, waited, world, gor, trace>>
    /\ UNCHANGED <<cfgVars, runVars, daemonVars, cascVars, polVars, hypVars>>

\* if *output != "" { os.WriteFile: a failure is log.Fatalf }; else log
PolicyWriteResults ==
    /\ ProcessAlive
    /\ mpc = "p_write"
    /\ IF flags.output
       THEN \/ /\ world' = [world EXCEPT !.output = "written"]
               /\ Did("results_written")
               /\ mpc' = "return"
               /\ UNCHANGED exitCode
            \/ /\ Fatalf
               /\ UNCHANGED <<world, trace>>
       ELSE /\ mpc' = "return"
            /\ UNCHANGED <<world, trace, exitCode>>
    /\ UNCHANGED <<flags, defers, waited, gor>>
    /\ UNCHANGED <<cfgVars, runVars, daemonVars, cascVars, polVars, hypVars>>

(***************************************************************************)
(* Specification of the --policy orchestrator process                      *)
(***************************************************************************)
PolicyFlagSets ==
    [policy : Policies, turns : 0 .. MaxMainTurns, k : {8},
     smallTurnThreshold : Thresholds, output : BOOLEAN,
     backend : {"http://X"}, model : {"test-model"}]

InitPolicyMain ==
    /\ flags \in PolicyFlagSets
    /\ mpc = "p_killall"
    /\ exitCode = -1
    /\ defers = <<>>
    /\ waited = 0
    /\ world = [configFile |-> "none", outDir |-> FALSE, logFile |-> "none",
                output |-> "none", container |-> "absent",
                window |-> "absent", killSent |-> FALSE,
                dExitPhase |-> "none"]
    /\ gor = [processExited |-> <<>>, watcher |-> "none", monitor |-> "none",
              daemonMonitorDone |-> "open", noise |-> "none",
              noiseCancelled |-> FALSE, noiseSent |-> 0,
              noiseLog |-> <<>>]
    /\ trace = <<>>
    /\ daemon = "none"
    /\ dExecuted = 0
    /\ CfgIdle
    /\ RunIdle
    /\ CascIdle
    /\ PolIdle
    /\ HypIdle

NextPolicyMain ==
    \/ PolicyKillAll
    \/ PolicyMkdir
    \/ PolicyWriteConfig
    \/ PolicyBackendCheck
    \/ PolicyCreateLog
    \/ PolicySpawnDaemon
    \/ PolicySleep
    \/ PolStartWorkflow
    \/ PolGetNextTask
    \/ PolExecuteTask
    \/ PolGetUpdatedIndex
    \/ PolCompleteTask
    \/ PolReturnResults
    \/ PolicyAfterRun
    \/ PolicyWriteResults
    \/ DeferredKillDaemon
    \/ DeferredCloseLog
    \/ MainReturns
    \/ DaemonExits
    \/ Signal

SpecPolicyMain == InitPolicyMain /\ [][NextPolicyMain]_vars

(***************************************************************************)
(* main of the model_cascade orchestrator                                  *)
(***************************************************************************)
\* the flag defaults of model_cascade
DefaultBackendLarge == "http://localhost:30000"
DefaultBackendSmall == "http://localhost:30001"
DefaultBackendOllama == "http://localhost:11434"

\* *backendLarge and *backendSmall: the value supplied, else the default
BackendLargeOf(f) == IF f.largeGiven THEN "http://X" ELSE DefaultBackendLarge
BackendSmallOf(f) == IF f.smallGiven THEN "http://S" ELSE DefaultBackendSmall

\* switch *mode { case "cascade" ... case "baseline-ollama" ... case
\* "cascade-ollama" ... default: createBaselineConfig }
CascadeConfigOf(f) ==
    IF f.mode = "cascade"
    THEN createCascadeConfig(BackendSmallOf(f), BackendLargeOf(f))
    ELSE IF f.mode = "baseline-ollama"
    THEN createOllamaBaselineConfig(DefaultBackendOllama)
    ELSE IF f.mode = "cascade-ollama"
    THEN createOllamaCascadeConfig(DefaultBackendOllama)
    ELSE createBaselineConfig(BackendLargeOf(f))

\* exec.Command("killall", "orla").Run(), outcome ignored; flag.Parse()
CascadeKillAll ==
    /\ ProcessAlive
    /\ mpc = "c_killall"
    /\ Did("killall")
    /\ mpc' = IF flags.output THEN "c_mkdir" ELSE "c_config"
    /\ UNCHANGED <<flags, exitCode, defers, waited, world, gor>>
    /\ UNCHANGED <<cfgVars, runVars, daemonVars, cascVars, polVars, hypVars>>

\* os.MkdirAll(filepath.Dir(*output), 0755)
CascadeMkdir ==
    /\ ProcessAlive
    /\ mpc = "c_mkdir"
    /\ \/ /\ world' = [world EXCEPT !.outDir = TRUE]
          /\ Did("mkdir")
          /\ mpc' = "c_config"
          /\ UNCHANGED exitCode
       \/ /\ Fatalf
          /\ UNCHANGED <<world, trace>>
    /\ UNCHANGED <<flags, defers, waited, gor>>
    /\ UNCHANGED <<cfgVars, runVars, daemonVars, cascVars, polVars, hypVars>>

\* the create*Config call chosen by the mode switch; the file is kept
CascadeWriteConfig ==
    /\ ProcessAlive
    /\ mpc = "c_config"
    /\ \/ /\ cfgOut' = [written |-> TRUE, lines |-> CascadeConfigOf(flags)]
          /\ world' = [world EXCEPT !.configFile = "present"]
          /\ Did("config_written")
          /\ mpc' = "c_backend"
          /\ UNCHANGED exitCode
       \/ /\ Fatalf
          /\ UNCHANGED <<cfgOut, world, trace>>
    /\ UNCHANGED <<flags, defers, waited, gor, cfgFn, cfgArgs>>
    /\ UNCHANGED <<runVars, daemonVars, cascVars, polVars, hypVars>>

\* checkBackendReady of the first backend of the mode: the small model in
\* cascade mode, Ollama in the Ollama modes, the large model otherwise
CascadeBackendCheck ==
    /\ ProcessAlive
    /\ mpc = "c_backend"
    /\ \/ /\ mpc' = IF flags.mode = "cascade" THEN "c_backend_large"
                    ELSE "c_log"
          /\ IF flags.mode = "cascade" THEN UNCHANGED trace
             ELSE Did("backend_ok")
          /\ UNCHANGED exitCode
       \/ /\ Fatalf
          /\ UNCHANGED trace
    /\ UNCHANGED <<flags, defers, waited, world, gor>>
    /\ UNCHANGED <<cfgVars, runVars, daemonVars, cascVars, polVars, hypVars>>

\* cascade mode only: checkBackendReady(*backendLarge)
CascadeBackendCheckLarge ==
    /\ ProcessAlive
    /\ mpc = "c_backend_large"
    /\ \/ /\ Did("backend_ok")
          /\ mpc' = "c_log"
          /\ UNCHANGED exitCode
       \/ /\ Fatalf
          /\ UNCHANGED trace
    /\ UNCHANGED <<flags, defers, waited, world, gor>>
    /\ UNCHANGED <<cfgVars, runVars, daemonVars, cascVars, polVars, hypVars>>

\* daemonLog, err := os.Create(logFile); defer daemonLog.Close()
CascadeCreateLog ==
    /\ ProcessAlive
    /\ mpc = "c_log"
    /\ \/ /\ world' = [world EXCEPT !.logFile = "open"]
          /\ Did("log_created")
          /\ Defer("closeLog")
          /\ mpc' = "c_spawn"
          /\ UNCHANGED exitCode
       \/ /\ Fatalf
          /\ UNCHANGED <<world, trace, defers>>
    /\ UNCHANGED <<flags, waited, gor>>
    /\ UNCHANGED <<cfgVars, runVars, daemonVars, cascVars, polVars, hypVars>>

\* cmd.Start(); defer cmd.Process.Kill(); go func() { processExited <-
\* cmd.Wait() }()
CascadeSpawnDaemon ==
    /\ ProcessAlive
    /\ mpc = "c_spawn"
    /\ \/ /\ daemon' = "running"
          /\ Did("daemon_spawned")
          /\ Defer("killDaemon")
          /\ gor' = [gor EXCEPT !.watcher = "waiting"]
          /\ mpc' = "c_ready"
          /\ UNCHANGED exitCode
       \/ /\ Fatalf
          /\ UNCHANGED <<daemon, trace, defers, gor>>
    /\ UNCHANGED <<flags, waited, world, dExecuted>>
    /\ UNCHANGED <<cfgVars, runVars, cascVars, polVars, hypVars>>

\* one iteration of the readiness loop (maxWait 60 s, checkInterval 500 ms);
\* after the break, the call of runExperiment(ctx, orlaURL, *mode, *numTasks)
CascadeReadyIteration ==
    /\ ProcessAlive
    /\ mpc = "c_ready"
    /\ IF gor.processExited # <<>>
       THEN /\ Fatalf
            /\ gor' = [gor EXCEPT !.processExited = <<>>]
            /\ UNCHANGED <<waited, trace, cascVars>>
       ELSE \/ /\ daemon = "running"
               /\ trace' = trace \o <<"daemon_ready", "workload_started">>
               /\ mpc' = "c_run"
               /\ waited' = 0
               /\ \E lat \in LatencyProfiles :
                     cArgs' = [mode |-> flags.mode,
                               numTasks |-> flags.numTasks, lat |-> lat]
               /\ cpc' = "loop"
               /\ UNCHANGED <<ci, cStage, cExecID, cTaskIndex, analysisTimes,
                              synthesisTimes, summaryTimes, totalTimes,
                              cResult, cCalls>>
               /\ UNCHANGED <<exitCode, gor>>
            \/ /\ IF DeadlineExceeded(waited)
                  THEN Fatalf /\ UNCHANGED waited
                  ELSE /\ waited' = waited + 1
                       /\ UNCHANGED <<mpc, exitCode>>
               /\ UNCHANGED <<trace, gor, cascVars>>
    /\ UNCHANGED <<flags, defers, world>>
    /\ UNCHANGED <<cfgVars, runVars, daemonVars, polVars, hypVars>>

\* runExperiment returned: log.Fatalf on error, else json.MarshalIndent
CascadeAfterRun ==
    /\ ProcessAlive
    /\ mpc = "c_run"
    /\ cpc \in {"done", "failed"}
    /\ IF cpc = "failed" THEN Fatalf
       ELSE mpc' = "c_write" /\ UNCHANGED exitCode
    /\ UNCHANGED <<flags, defers, waited, world, gor, trace>>
    /\ UNCHANGED <<cfgVars, runVars, daemonVars, cascVars, polVars, hypVars>>

\* if *output != "" { os.WriteFile: a failure is log.Fatalf }; else log
CascadeWriteResults ==
    /\ ProcessAlive
    /\ mpc = "c_write"
    /\ IF flags.output
       THEN \/ /\ world' = [world EXCEPT !.output = "written"]
               /\ Did("results_written")
               /\ mpc' = "return"
               /\ UNCHANGED exitCode
            \/ /\ Fatalf
               /\ UNCHANGED <<world, trace>>
       ELSE /\ mpc' = "return"
            /\ UNCHANGED <<world, trace, exitCode>>
    /\ UNCHANGED <<flags, defers, waited, gor>>
    /\ UNCHANGED <<cfgVars, runVars, daemonVars, cascVars, polVars, hypVars>>

(***************************************************************************)
(* Specification of the model_cascade orchestrator process                 *)
(***************************************************************************)
CascadeFlagSets ==
    [mode : CascadeModes \cup {"baseline-ollama", "cascade-ollama", "bogus"},
     numTasks : 0 .. MaxMainTurns, output : BOOLEAN,
     smallGiven : BOOLEAN, largeGiven : BOOLEAN]

InitCascadeMain ==
    /\ flags \in CascadeFlagSets
    /\ mpc = "c_killall"
    /\ exitCode = -1
    /\ defers = <<>>
    /\ waited = 0
    /\ world = [configFile |-> "none", outDir |-> FALSE, logFile |-> "none",
                output |-> "none", container |-> "absent",
                window |-> "absent", killSent |-> FALSE,
                dExitPhase |-> "none"]
    /\ gor = [processExited |-> <<>>, watcher |-> "none", monitor |-> "none",
              daemonMonitorDone |-> "open", noise |-> "none",
              noiseCancelled |-> FALSE, noiseSent |-> 0,
              noiseLog |-> <<>>]
    /\ trace = <<>>
    /\ daemon = "none"
    /\ dExecuted = 0
    /\ CfgIdle
    /\ RunIdle
    /\ CascIdle
    /\ PolIdle
    /\ HypIdle

NextCascadeMain ==
    \/ CascadeKillAll
    \/ CascadeMkdir
    \/ CascadeWriteConfig
    \/ CascadeBackendCheck
    \/ CascadeBackendCheckLarge
    \/ CascadeCreateLog
    \/ CascadeSpawnDaemon
    \/ CascadeReadyIteration
    \/ CascStartWorkflow
    \/ CascGetNextTask
    \/ CascExecuteTask
    \/ CascReturnResults
    \/ CascadeAfterRun
    \/ CascadeWriteResults
    \/ DeferredKillDaemon
    \/ DeferredCloseLog
    \/ MainReturns
    \/ DaemonExits
    \/ WatcherSends
    \/ Signal

SpecCascadeMain == InitCascadeMain /\ [][NextCascadeMain]_vars

(***************************************************************************)
(* The story orchestrator with noise and the outcome of every noise        *)
(* request                                                                 *)
(***************************************************************************)
InitNoiseReq ==
    /\ InitNoiseMain
    /\ flags.noiseRate > 0
    /\ flags.output
    /\ flags.turns = 1

NextNoiseReq == NextNoiseMain \/ NoiseRequestEnds

SpecNoiseReq == InitNoiseReq /\ [][NextNoiseReq]_vars

\* the same runs, without the outcomes of the requests, the generator
\* goroutine scheduled as long as the process lives
SpecNoiseRunFair ==
    InitNoiseReq /\ [][NextNoiseMain]_vars /\ WF_vars(NoiseReturns)

(***************************************************************************)
(* The story orchestrator without noise, for runs of more than one turn,   *)
(* with main scheduled once the runner has returned                        *)
(***************************************************************************)
StoryRunFlagSets ==
    [sudo : {TRUE}, tmux : {TRUE}, backendType : {"sglang"},
     cacheStrategy : {"flush"}, startSGLang : {FALSE}, startVLLM : {FALSE},
     output : BOOLEAN, noiseRate : {0}, turns : 0 .. (MaxMainTurns + 1),
     k : {32}]

InitStoryRun ==
    /\ flags \in StoryRunFlagSets
    /\ mpc = "start"
    /\ exitCode = -1
    /\ defers = <<>>
    /\ waited = 0
    /\ world = [configFile |-> "none", outDir |-> FALSE, logFile |-> "none",
                output |-> "none", container |-> "absent",
                window |-> "absent", killSent |-> FALSE,
                dExitPhase |-> "none"]
    /\ gor = [processExited |-> <<>>, watcher |-> "none", monitor |-> "none",
              daemonMonitorDone |-> "open", noise |-> "none",
              noiseCancelled |-> FALSE, noiseSent |-> 0,
              noiseLog |-> <<>>]
    /\ trace = <<>>
    /\ daemon = "none"
    /\ dExecuted = 0
    /\ CfgIdle
    /\ RunIdle
    /\ CascIdle
    /\ PolIdle
    /\ HypIdle

NextStoryRun ==
    \/ CheckSudo
    \/ KillAllOrla
    \/ ValidateFlags
    \/ MkdirOutput
    \/ WriteConfigFile
    \/ BackendCheck
    \/ CreateDaemonLog
    \/ SpawnDaemon
    \/ ReadyIteration
    \/ StartWorkload
    \/ StartWorkflow
    \/ GetNextTask
    \/ ExecuteTask
    \/ ReturnResults
    \/ AfterWorkload
    \/ WriteResults
    \/ DeferredKillDaemon
    \/ DeferredCloseLog
    \/ DeferredRemoveConfig
    \/ MainReturns
    \/ DaemonExits
    \/ WatcherSends
    \/ MonitorFatal
    \/ MonitorReturns
    \/ Signal

SpecStoryRun == InitStoryRun /\ [][NextStoryRun]_vars

SpecStoryMainFair == SpecStoryRun /\ WF_vars(AfterWorkload)

(***************************************************************************)
(* The readiness wait of the story and of the cascade orchestrator, with   *)
(* main scheduled as long as the process lives                             *)
(***************************************************************************)
\* story runs without noise and cascade runs in the two sglang modes, all
\* with an output path
ReadyWaitFlagSets ==
    {f \in NoiseFlagSets : f.noiseRate = 0 /\ f.output}
      \cup {f \in CascadeFlagSets : /\ f.mode \in CascadeModes
                                    /\ f.smallGiven /\ f.largeGiven
                                    /\ f.output}

InitReadyWait ==
    /\ InitNoiseMain \/ InitCascadeMain
    /\ flags \in ReadyWaitFlagSets

NextReadyWait ==
    \/ CheckSudo
    \/ KillAllOrla
    \/ ValidateFlags
    \/ MkdirOutput
    \/ WriteConfigFile
    \/ BackendCheck
    \/ CreateDaemonLog
    \/ SpawnDaemon
    \/ ReadyIteration
    \/ StartWorkload
    \/ StartWorkflow
    \/ GetNextTask
    \/ ExecuteTask
    \/ ReturnResults
    \/ AfterWorkload
    \/ WriteResults
    \/ DeferredRemoveConfig
    \/ MonitorFatal
    \/ MonitorReturns
    \/ NextCascadeMain

SpecReadyWait ==
    /\ InitReadyWait
    /\ [][NextReadyWait]_vars
    /\ WF_vars(ReadyIteration)
    /\ WF_vars(CascadeReadyIteration)

(***************************************************************************)
(* runBackgroundNoise, two executions side by side                         *)
(*                                                                         *)
(* Each execution owns rng := rand.New(rand.NewSource(42)), so both read   *)
(* the same stream of values; a value is identified by its position in     *)
(* that stream.  rng.Intn(len(prompts)) in a request goroutine and         *)
(* rng.ExpFloat64() in the loop each take the next value, under rngMu: the *)
(* mutex makes each draw atomic and leaves their order to the scheduler.   *)
(***************************************************************************)
Runs == {1, 2}

GenRates == {1, 2}

\* time.Duration(rng.ExpFloat64() / rate * float64(time.Second)) computed
\* from the n-th value of the stream
InterArrival(n, r) == [draw |-> n, rate |-> r]

\* the loop's first select takes default: go func() { ... }()
GenLaunch(r) ==
    /\ noiseRun[r].pc = "top"
    /\ ~noiseRun[r].ctxDone
    /\ Len(noiseRun[r].prompt) < MaxLaunches
    /\ noiseRun' = [noiseRun EXCEPT ![r].pc = "draw",
                                    ![r].prompt = Append(@, 0)]
    /\ UNCHANGED <<genRate, cfgVars, runVars, daemonVars, cascVars, mainVars,
                   polVars>>

\* the i-th request goroutine: rngMu.Lock(); prompts[rng.Intn(len(prompts))]
GenPromptDraw(r) ==
    \E i \in 1..Len(noiseRun[r].prompt) :
        /\ noiseRun[r].prompt[i] = 0
        /\ noiseRun' = [noiseRun EXCEPT ![r].rngDraws = @ + 1,
                                        ![r].prompt[i] = noiseRun[r].rngDraws + 1]
        /\ UNCHANGED <<genRate, cfgVars, runVars, daemonVars, cascVars,
                       mainVars, polVars>>

\* the loop: rngMu.Lock(); interArrival := ... rng.ExpFloat64() / rate ...
GenDelayDraw(r) ==
    /\ noiseRun[r].pc = "draw"
    /\ noiseRun' = [noiseRun EXCEPT
                      ![r].pc = "wait",
                      ![r].rngDraws = @ + 1,
                      ![r].interArrival =
                          Append(@, InterArrival(noiseRun[r].rngDraws + 1, genRate))]
    /\ UNCHANGED <<genRate, cfgVars, runVars, daemonVars, cascVars, mainVars,
                   polVars>>

\* case <-time.After(interArrival)
GenTimer(r) ==
    /\ noiseRun[r].pc = "wait"
    /\ noiseRun' = [noiseRun EXCEPT ![r].pc = "top"]
    /\ UNCHANGED <<genRate, cfgVars, runVars, daemonVars, cascVars, mainVars,
                   polVars>>

\* the caller cancels ctx
GenCancel(r) ==
    /\ noiseRun[r].pc \in {"top", "draw", "wait"}
    /\ ~noiseRun[r].ctxDone
    /\ noiseRun' = [noiseRun EXCEPT ![r].ctxDone = TRUE]
    /\ UNCHANGED <<genRate, cfgVars, runVars, daemonVars, cascVars, mainVars,
                   polVars>>

\* case <-ctx.Done(): return, in either select
GenReturn(r) ==
    /\ noiseRun[r].pc \in {"top", "wait"}
    /\ noiseRun[r].ctxDone
    /\ noiseRun' = [noiseRun EXCEPT ![r].pc = "returned"]
    /\ UNCHANGED <<genRate, cfgVars, runVars, daemonVars, cascVars, mainVars,
                   polVars>>

InitNoisePair ==
    /\ CfgIdle
    /\ RunIdle
    /\ daemon = "none"
    /\ dExecuted = 0
    /\ CascIdle
    /\ MainIdle
    /\ PolIdle
    /\ genRate \in GenRates
    /\ noiseRun = [r \in Runs |-> [pc |-> "top", ctxDone |-> FALSE,
                                   rngDraws |-> 0, prompt |-> <<>>,
                                   interArrival |-> <<>>]]

NextNoisePair ==
    \E r \in Runs :
        \/ GenLaunch(r)
        \/ GenPromptDraw(r)
        \/ GenDelayDraw(r)
        \/ GenTimer(r)
        \/ GenCancel(r)
        \/ GenReturn(r)

SpecNoisePair == InitNoisePair /\ [][NextNoisePair]_vars

(***************************************************************************)
(* Claims about the orchestrator process (checked under SpecMain)          *)
(***************************************************************************)
Exited == exitCode # -1

\* C1: whenever the --cache-strategy orchestrator has exited (normal return,
\* workload failure, fatal error during engine or daemon readiness, daemon
\* monitor abort, INT/TERM), the workflow-config file it created is deleted
\* and, when it started the engine itself, the engine container is removed.
C1_Original ==
    Exited =>
        /\ world.configFile # "present"
        /\ (OwnEngine # "none" => world.container = "absent")

\* C3: when the daemon exits after it was reported ready and before the
\* workload runner has returned, the output file is never written and the
\* orchestrator does not exit with status 0.
C3_Original ==
    world.dExitPhase = "workload" =>
        /\ world.output # "written"
        /\ exitCode # 0

\* C4: when the orchestrator has exited of its own accord after spawning the
\* daemon, a kill has been sent to the daemon if it is still running.
C4_Original ==
    (exitCode \in {0, 1} /\ daemon = "running") => world.killSent

(***************************************************************************)
(* Claims about the cascade runner (checked under SpecCasc)                *)
(***************************************************************************)
CascAnswered(op) ==
    SelectSeq(cCalls, LAMBDA c : c.op = op /\ c.answer = "ok")

NoEarlyComplete == \A j \in 1 .. Len(cCalls) : cCalls[j].answer # "complete"

\* C7: for every num_tasks N >= 0, a successful cascade run against a daemon
\* that never signals complete executes exactly N three-stage workflows,
\* task i taking entry (i mod 20) of the issue list, and emits exactly 3*N
\* stage latency records (N analysis, N synthesis, N summary), also when N
\* is larger than the list.
C7_Original ==
    (cpc = "done" /\ cResult.status = "ok" /\ cArgs.numTasks >= 0
        /\ NoEarlyComplete) =>
        LET N == cArgs.numTasks
            started == CascAnswered("StartWorkflow")
        IN
        /\ Len(started) = N
        /\ \A i \in 0 .. (N - 1) : started[i + 1].prompt.issue = i % NumIssues
        /\ Len(CascAnswered("ExecuteTask")) = 3 * N
        /\ Len(cResult.analysis_times) = N
        /\ Len(cResult.synthesis_times) = N
        /\ Len(cResult.summary_times) = N

(***************************************************************************)
(* Claims: helpers                                                         *)
(***************************************************************************)
DigitValue(c) == CHOOSE d \in 0 .. 9 : DigitChars[d + 1] = c

RECURSIVE ParseNat(_)
ParseNat(ds) ==
    IF Len(ds) = 0 THEN 0
    ELSE 10 * ParseNat(SubSeq(ds, 1, Len(ds) - 1)) + DigitValue(ds[Len(ds)])

\* strconv.Atoi of a %d rendering
ParseInt(ds) == IF ds[1] = "-" THEN 0 - ParseNat(Tail(ds)) ELSE ParseNat(ds)

(***************************************************************************)
(* Claims about runStoryFinishing (checked under SpecRun)                  *)
(***************************************************************************)
ExecCalls == SelectSeq(calls, LAMBDA c : c.op = "ExecuteTask")

HandleCalls == SelectSeq(calls, LAMBDA c : c.op = "StartWorkflow")

IsDigit(c) == \E d \in 1 .. 10 : DigitChars[d] = c

\* position of the first "." piece of a prompt, 0 when there is none
FirstDot(p) ==
    IF \E m \in 1 .. Len(p) : p[m] = "."
    THEN CHOOSE m \in 1 .. Len(p) :
            p[m] = "." /\ \A j \in 1 .. (m - 1) : p[j] # "."
    ELSE 0

\* the prompt starts with "Request <n>." followed by a blank line
HasRequestPrefix(p) ==
    LET m == FirstDot(p) IN
    /\ Len(p) >= 4
    /\ p[1] = "Request "
    /\ m >= 3
    /\ \A j \in 2 .. (m - 1) : IsDigit(p[j])
    /\ Len(p) > m
    /\ p[m + 1] = "\n\n"

\* the <n> of a prompt that has the prefix
PrefixNumber(p) == ParseNat(SubSeq(p, 2, FirstDot(p) - 1))

FlushOnVLLM == rArgs.backendType = "vllm" /\ rArgs.cacheStrategy = "flush"

\* C2: whenever runStoryFinishing returns without error for a turn count
\* T >= 0, exactly T turns were executed and the three per-turn lists of
\* the result have exactly T entries each, whatever the daemon answered.
C2_TurnsOnSuccess ==
    (rpc = "done" /\ result.status = "ok" /\ rArgs.turns >= 0) =>
        /\ Len(ExecCalls) = rArgs.turns
        /\ Len(result.ttft_per_turn) = rArgs.turns
        /\ Len(result.tpot_per_turn) = rArgs.turns
        /\ Len(result.latency_per_turn_ms) = rArgs.turns

\* a 3-turn run that returned after the daemon answered complete at least once
C2_Witness ==
    /\ rpc = "done"
    /\ result.status = "ok"
    /\ rArgs.turns = 3
    /\ Len(HandleCalls) > 2
    /\ Len(result.ttft_per_turn) = 3

\* C5: with vllm and flush every prompt passed to ExecuteTask starts with a
\* "Request <n>." prefix followed by a blank line and no two turns of the run
\* carry the same n; with sglang, or with preserve, no prompt has the prefix.
C5_RequestPrefix ==
    /\ \A i \in 1 .. Len(ExecCalls) :
          IF FlushOnVLLM
          THEN HasRequestPrefix(ExecCalls[i].prompt)
          ELSE /\ ExecCalls[i].prompt[1] = TemplateHead
               /\ \A j \in 1 .. Len(ExecCalls[i].prompt) :
                     ExecCalls[i].prompt[j] # "Request "
    /\ FlushOnVLLM =>
          \A i, j \in 1 .. Len(ExecCalls) :
              i # j => PrefixNumber(ExecCalls[i].prompt)
                          # PrefixNumber(ExecCalls[j].prompt)

C5_Witness ==
    /\ FlushOnVLLM
    /\ Len(ExecCalls) = 3
    /\ \A i \in 1 .. 3 : HasRequestPrefix(ExecCalls[i].prompt)

\* C6 as stated: with vllm and flush the prompt of the i-th executed turn
\* (i = 1..T) starts with "Request i.": the prefix number is the 1-based
\* turn index.
C6_Original ==
    FlushOnVLLM =>
        \A i \in 1 .. Len(ExecCalls) :
            /\ HasRequestPrefix(ExecCalls[i].prompt)
            /\ PrefixNumber(ExecCalls[i].prompt) = i

\* C6 amended: with vllm and flush the prompt of the i-th executed turn
\* (i = 1..T) starts with "Request <i-1>." followed by a blank line: the
\* prefix number is the 0-based turn index (the turn counter before its
\* increment), so a 2-turn run sends "Request 0." and then "Request 1.".
C6_ZeroBasedPrefix ==
    FlushOnVLLM =>
        \A i \in 1 .. Len(ExecCalls) :
            /\ HasRequestPrefix(ExecCalls[i].prompt)
            /\ PrefixNumber(ExecCalls[i].prompt) = i - 1
            /\ SubSeq(ExecCalls[i].prompt, 1, 4)
                  = <<"Request ", DigitChars[i], ".", "\n\n">>

C6_Witness ==
    /\ FlushOnVLLM
    /\ rArgs.turns = 2
    /\ rpc = "done"
    /\ Len(ExecCalls) = 2
    /\ SubSeq(ExecCalls[1].prompt, 1, 4) = <<"Request ", "0", ".", "\n\n">>
    /\ SubSeq(ExecCalls[2].prompt, 1, 4) = <<"Request ", "1", ".", "\n\n">>

(***************************************************************************)
(* Claims about the config synthesizers (checked under SpecCfg)            *)
(***************************************************************************)
\* indices of the task slots of a config text
TaskIdx(lines) == {j \in 1 .. Len(lines) : lines[j].key = "agent_profile"}

TaskLines(lines) == SelectSeq(lines, LAMBDA l : l.key = "agent_profile")

IdxOf(lines, key) == {j \in 1 .. Len(lines) : lines[j].key = key}

\* C8: for every turn count T >= 0, createConfig writes exactly T task slots,
\* slot i (0-based) naming story_agent_a when i is even and story_agent_b
\* when i is odd.
C8_CreateConfigSlots ==
    (cfgFn = "createConfig" /\ cfgOut.written /\ cfgArgs.turns >= 0) =>
        LET slots == TaskLines(cfgOut.lines) IN
        /\ Len(slots) = cfgArgs.turns
        /\ \A i \in 0 .. (cfgArgs.turns - 1) :
              slots[i + 1].val =
                 <<IF i % 2 = 0 THEN "story_agent_a" ELSE "story_agent_b">>

C8_Witness ==
    /\ cfgFn = "createConfig"
    /\ cfgOut.written
    /\ cfgArgs.turns = 3
    /\ Len(TaskLines(cfgOut.lines)) = 3

\* C9 as stated: the --cache-strategy config for T turns contains T task
\* slots alternating between the two profiles starting with the first, every
\* slot carrying use_context, and policy preserve for strategy preserve.
C9_Original ==
    (cfgFn \in {"createStoryFinishingConfig", "createStoryFinishingConfigSGLang"}
        /\ cfgOut.written /\ cfgArgs.turns >= 0) =>
        LET slots == TaskLines(cfgOut.lines) IN
        /\ Len(slots) = cfgArgs.turns
        /\ \A i \in 0 .. (Len(slots) - 1) :
              slots[i + 1].val = Quoted(IF i % 2 = 0 THEN "agent_i" ELSE "agent_j")

\* C9 amended: whatever --turns is, the --cache-strategy config contains
\* exactly two task slots, agent_i then agent_j, each directly followed by a
\* use_context directive, and its one cache policy is preserve when the
\* strategy is preserve and aggressive_flush when it is flush.
C9_TwoSlotConfig ==
    (cfgFn \in {"createStoryFinishingConfig", "createStoryFinishingConfigSGLang"}
        /\ cfgOut.written) =>
        LET lines == cfgOut.lines
            slots == TaskLines(lines)
        IN
        /\ Len(slots) = 2
        /\ slots[1].val = Quoted("agent_i")
        /\ slots[2].val = Quoted("agent_j")
        /\ \A j \in TaskIdx(lines) :
              j < Len(lines) /\ lines[j + 1].key = "use_context"
        /\ \E j \in 1 .. Len(lines) :
              /\ IdxOf(lines, "policy") = {j}
              /\ lines[j].val =
                    Quoted(IF cfgArgs.cacheStrategy = "preserve"
                           THEN "preserve" ELSE "aggressive_flush")

C9_Witness ==
    /\ cfgFn = "createStoryFinishingConfig"
    /\ cfgOut.written
    /\ cfgArgs.turns = 4
    /\ cfgArgs.cacheStrategy = "preserve"
    /\ Len(TaskLines(cfgOut.lines)) = 2

\* C10: createConfig emits a small_turn_threshold line in the cache block
\* (right after the policy line) if and only if the policy is
\* preserve_on_small_turns, and the number it carries is the threshold given.
C10_ThresholdLine ==
    (cfgFn = "createConfig" /\ cfgOut.written) =>
        LET lines == cfgOut.lines
            th == IdxOf(lines, "small_turn_threshold")
        IN
        /\ (th # {}) <=> (cfgArgs.policy = "preserve_on_small_turns")
        /\ Cardinality(th) <= 1
        /\ \A j \in th :
              /\ j > 1
              /\ lines[j - 1].key = "policy"
              /\ lines[j - 1].val = Quoted("preserve_on_small_turns")
              /\ ParseInt(lines[j].val) = cfgArgs.smallTurnThreshold

C10_Witness ==
    /\ cfgFn = "createConfig"
    /\ cfgOut.written
    /\ cfgArgs.policy = "preserve_on_small_turns"
    /\ cfgArgs.smallTurnThreshold = 32
    /\ \E j \in 1 .. Len(cfgOut.lines) :
          /\ cfgOut.lines[j].key = "small_turn_threshold"
          /\ cfgOut.lines[j].val = <<"3", "2">>

(***************************************************************************)
(* Claims about the model_cascade configs (checked under SpecCfg)          *)
(***************************************************************************)
\* position of the only line with this key and no value (a block opener)
BlockAt(lines, key) ==
    CHOOSE j \in 1 .. Len(lines) : lines[j].key = key /\ lines[j].val = <<>>

\* the lines of the block opened by key from, up to the block opened by to
\* (to the end when to is "")
Block(lines, from, to) ==
    SubSeq(lines, BlockAt(lines, from) + 1,
           IF to = "" THEN Len(lines) ELSE BlockAt(lines, to) - 1)

\* the values of the lines with this key, in order
ValuesOf(lines, key) ==
    LET sel == SelectSeq(lines, LAMBDA l : l.key = key)
    IN  [j \in 1 .. Len(sel) |-> sel[j].val]

\* the server a profile is bound to: the llm_server value of the entry whose
\* name is the profile's
BoundServer(lines, profile) ==
    LET profs == Block(lines, "agent_profiles", "workflows")
        names == ValuesOf(profs, "name")
        srvs == ValuesOf(profs, "llm_server")
        j == CHOOSE k \in 1 .. Len(names) : names[k] = Quoted(profile)
    IN  srvs[j]

CascadeSlotOrder == <<Quoted("router"), Quoted("synthesizer"), Quoted("summarizer")>>

\* C11: createBaselineConfig writes exactly one server, on the given endpoint,
\* and binds router, synthesizer and summarizer to it; createCascadeConfig
\* writes two servers and binds router and summarizer to the one on the
\* small-model endpoint and synthesizer to the one on the large-model
\* endpoint; every model_cascade config has one workflow whose task slots are
\* exactly router, synthesizer, summarizer in that order.
C11_CascadeConfigs ==
    (cfgFn \in CascadeConfigFns /\ cfgOut.written) =>
        LET lines == cfgOut.lines
            servers == Block(lines, "llm_servers", "agent_profiles")
            srvNames == ValuesOf(servers, "name")
            endpoints == ValuesOf(servers, "endpoint")
            profs == Block(lines, "agent_profiles", "workflows")
            flows == Block(lines, "workflows", "tasks")
            slots == Block(lines, "tasks", "")
        IN  /\ Len(ValuesOf(flows, "name")) = 1
            /\ Len(slots) = 3
            /\ ValuesOf(slots, "agent_profile") = CascadeSlotOrder
            /\ ValuesOf(profs, "name") = CascadeSlotOrder
            /\ Len(srvNames) = Len(endpoints)
            /\ cfgFn = "createBaselineConfig" =>
                  /\ Len(srvNames) = 1
                  /\ endpoints[1] = Quoted(cfgArgs.backend)
                  /\ \A pr \in {"router", "synthesizer", "summarizer"} :
                        BoundServer(lines, pr) = srvNames[1]
            /\ cfgFn = "createCascadeConfig" =>
                  /\ Len(srvNames) = 2
                  /\ srvNames[1] # srvNames[2]
                  /\ endpoints[1] = Quoted(cfgArgs.backendSmall)
                  /\ endpoints[2] = Quoted(cfgArgs.backend)
                  /\ BoundServer(lines, "router") = srvNames[1]
                  /\ BoundServer(lines, "summarizer") = srvNames[1]
                  /\ BoundServer(lines, "synthesizer") = srvNames[2]

\* a cascade config was written for two different endpoints
C11_Witness ==
    /\ cfgFn = "createCascadeConfig"
    /\ cfgOut.written
    /\ cfgArgs.backendSmall # cfgArgs.backend
    /\ Len(cfgOut.lines) > 0

(***************************************************************************)
(* Claims about startup validation and the order of the phases (checked    *)
(* under SpecMain, SpecPolicyMain, SpecCascadeMain)                        *)
(***************************************************************************)
ValidPolicies == {"aggressive_flush", "preserve", "preserve_on_small_turns"}
ValidModes == {"baseline", "cascade", "baseline-ollama", "cascade-ollama"}

\* the run was given an unrecognized --cache-strategy, --policy or --mode
UnrecognizedChoice ==
    \/ "cacheStrategy" \in DOMAIN flags /\ flags.cacheStrategy \notin CacheStrategies
    \/ "policy" \in DOMAIN flags /\ flags.policy \notin ValidPolicies
    \/ "mode" \in DOMAIN flags /\ flags.mode \notin ValidModes

\* C12: with an unrecognized --cache-strategy, --policy or --mode no config
\* file is ever written and no daemon is ever spawned, and the process never
\* exits with status 0.
C12_Original ==
    UnrecognizedChoice =>
        /\ world.configFile = "none"
        /\ ~cfgOut.written
        /\ daemon = "none"
        /\ exitCode # 0

Has(ev) == \E j \in 1 .. Len(trace) : trace[j] = ev

\* C13: when the story orchestrator has exited on a failed startup check
\* (SUDO_PASSWORD missing, or a flag check failed), it has performed no
\* external action.
C13_Original ==
    (exitCode = 1 /\ "sudo" \in DOMAIN flags
        /\ (~flags.sudo \/ FlagError(flags) # "")) =>
        trace = <<>>

\* C14: the cascade orchestrator run with --mode cascade and only one of
\* --backend-small / --backend-large supplied never writes a config file.
C14_Original ==
    ("mode" \in DOMAIN flags /\ flags.mode = "cascade"
        /\ flags.smallGiven # flags.largeGiven) =>
        (world.configFile = "none" /\ ~cfgOut.written)

\* C15: no written config whose cache policy is preserve_on_small_turns
\* carries a small_turn_threshold below 1.
C15_Original ==
    (cfgOut.written
        /\ \E j \in IdxOf(cfgOut.lines, "policy") :
              cfgOut.lines[j].val = Quoted("preserve_on_small_turns")) =>
        \A j \in IdxOf(cfgOut.lines, "small_turn_threshold") :
            ParseInt(cfgOut.lines[j].val) >= 1

\* C19: once main is running its deferred teardown, the process only ever
\* exits with status 0, and then the workflow-config file has been deleted.
C19_Original ==
    (exitCode \in {0, 1} /\ Has("daemon_kill")) =>
        (exitCode = 0 /\ world.configFile = "removed")

\* index of the first occurrence of an external action, 0 when it has none
Pos(ev) == IF Has(ev) THEN CHOOSE j \in 1 .. Len(trace) :
                               trace[j] = ev /\ \A k \in 1 .. (j - 1) : trace[k] # ev
           ELSE 0

\* a happened, and before b
Before(a, b) == Has(a) /\ Pos(a) < Pos(b)

\* some workload RPC has been issued
WorkloadRPCIssued == calls # <<>> \/ cCalls # <<>> \/ pol.calls # <<>>

\* C20: the phases of a run happen in the order config written, engine
\* started and ready, backend probed, daemon spawned, daemon health probe
\* succeeded, noise started, first workload RPC.
C20_Original ==
    /\ Has("win_new") => Before("config_written", "win_new")
    /\ Has("engine_ready") => Before("win_new", "engine_ready")
    /\ Has("daemon_spawned") =>
          /\ Before("config_written", "daemon_spawned")
          /\ Before("backend_ok", "daemon_spawned")
          /\ Has("win_new") => Before("engine_ready", "daemon_spawned")
    /\ Has("daemon_ready") => Before("daemon_spawned", "daemon_ready")
    /\ Has("noise_started") => Before("daemon_ready", "noise_started")
    /\ Has("workload_started") => Before("daemon_ready", "workload_started")
    /\ WorkloadRPCIssued => Has("daemon_ready") /\ Has("workload_started")

(***************************************************************************)
(* Claims about the noise generator inside the orchestrator (checked       *)
(* under SpecNoiseMain and SpecNoiseMainFair)                              *)
(***************************************************************************)
\* C16: with --noise-rate 0, and with any rate below 0, the noise generator
\* is never started and no noise request is ever launched.
C16_NoNoiseAtRateZero ==
    flags.noiseRate <= 0 =>
        /\ gor.noise = "none"
        /\ gor.noiseSent = 0
        /\ ~Has("noise_started")

\* a run with a negative rate went through its only turn and exited with 0
C16_Witness ==
    /\ flags.noiseRate < 0
    /\ flags.turns >= 1
    /\ turn = flags.turns
    /\ exitCode = 0

\* the generator was started
NoiseStarted == gor.noise # "none"

\* C18, first part: the cancel is raised before the results are written and
\* before main reports the failure of the run
CancelBeforeReport ==
    /\ [](NoiseStarted /\ (mpc \in {"write", "return"} \/ world.output = "written")
            => gor.noiseCancelled)
    /\ [][(NoiseStarted /\ mpc = "workload" /\ rpc = "failed"
             /\ exitCode' = 1 /\ gor'.monitor # "fatal")
            => gor'.noiseCancelled]_vars

\* C18, last part: a generator that has taken the ctx.Done() case launches
\* no further request
NoLaunchAfterReturn ==
    [][gor.noise = "returned" => gor'.noiseSent = gor.noiseSent]_vars

\* C18 as stated: the cancel comes before the report, after the cancel
\* runBackgroundNoise eventually returns, and it launches nothing after it
\* observed the cancellation.
C18_Original ==
    /\ CancelBeforeReport
    /\ NoLaunchAfterReturn
    /\ (gor.noiseCancelled ~> gor.noise = "returned")

\* C18, amended: the cancel comes before the report; after the cancel
\* runBackgroundNoise returns unless the process exits first (main does not
\* wait for it); it launches nothing after it observed the cancellation.
C18_CancelThenReturnOrExit ==
    /\ CancelBeforeReport
    /\ NoLaunchAfterReturn
    /\ (gor.noiseCancelled ~> (gor.noise = "returned" \/ Exited))

\* the generator sent a request, was cancelled and returned; the results
\* were written after the cancel
C18_Witness ==
    /\ gor.noise = "returned"
    /\ gor.noiseCancelled
    /\ gor.noiseSent >= 1
    /\ world.output = "written"

(***************************************************************************)
(* Claim about the draws of runBackgroundNoise (checked under              *)
(* SpecNoisePair)                                                          *)
(***************************************************************************)
\* the shorter of two lengths
MinLen(a, b) == IF Len(a) <= Len(b) THEN Len(a) ELSE Len(b)

\* C17: two executions of runBackgroundNoise with the same rate get the same
\* sequence of inter-arrival delays from the seed-42 rng, whatever the
\* interleaving of the loop's draws with the request goroutines' draws: as
\* far as both have drawn, the k-th delay of one is the k-th delay of the
\* other.
C17_Original ==
    \A k \in 1..MinLen(noiseRun[1].interArrival, noiseRun[2].interArrival) :
        noiseRun[1].interArrival[k] = noiseRun[2].interArrival[k]

(***************************************************************************)
(* Claim about the daemon readiness wait (checked under SpecReadyWait)     *)
(***************************************************************************)
\* main is in the readiness loop
InReadyWait == mpc \in {"ready", "c_ready"}

\* the loop broke on a probe that returned 200
ReadyProceeds ==
    /\ daemon = "running"
    /\ gor.processExited = <<>>
    /\ mpc' \in {"monitor", "c_run"}
    /\ exitCode' = exitCode
    /\ Has("daemon_ready")'

\* the loop received from processExited and called log.Fatalf
ReadyExitObserved ==
    /\ gor.processExited # <<>>
    /\ mpc' = "exited"
    /\ exitCode' = 1

\* the loop ran into the deadline and called log.Fatalf
ReadyDeadline ==
    /\ gor.processExited = <<>>
    /\ waited = ReadyDeadlineTicks
    /\ mpc' = "exited"
    /\ exitCode' = 1

\* the process was killed from outside while it waited
KilledWhileWaiting == mpc' = "exited" /\ exitCode' = 128

\* C21: the readiness wait always ends, after at most 121 probes 500 ms
\* apart (waited counts the sleeps, so the probe in progress is probe
\* waited + 1), in one of three outcomes: a probe returned 200 and main
\* proceeds, the exit of the child was received from processExited and
\* main aborts, the deadline passed and main aborts; main never goes on to
\* the workload without a probe that returned 200.  (A process killed by a
\* signal ends its wait too.)
C21_ReadyWaitEnds ==
    /\ [](InReadyWait => waited <= ReadyDeadlineTicks)
    /\ [][(InReadyWait /\ ~InReadyWait')
            => \/ ReadyProceeds
               \/ ReadyExitObserved
               \/ ReadyDeadline
               \/ KilledWhileWaiting]_vars
    /\ [](WorkloadRPCIssued => Has("daemon_ready"))
    /\ (InReadyWait ~> ~InReadyWait)

\* the wait took all 121 probes and ended at the deadline
C21_Witness ==
    /\ mpc = "exited"
    /\ exitCode = 1
    /\ waited = ReadyDeadlineTicks
    /\ daemon = "running"
    /\ gor.processExited = <<>>

(***************************************************************************)
(* Claims about errors of the daemon API in a story run (checked under     *)
(* SpecStoryMainFair)                                                      *)
(***************************************************************************)
\* C22: the first daemon RPC that returns an error ends the story workload:
\* no further daemon RPC is issued, runStoryFinishing returns the error and
\* none of the turn records collected so far, nothing is written to the
\* output path, and the orchestrator exits with a nonzero status.
C22_FirstErrorEndsRun ==
    /\ [][rpc = "failed" => (calls' = calls /\ rpc' = "failed")]_vars
    /\ [](rpc = "failed" =>
            /\ DOMAIN result = {"status", "msg"}
            /\ result.status = "error"
            /\ world.output # "written"
            /\ ~Has("results_written")
            /\ exitCode # 0)
    /\ (rpc = "failed" ~> (Exited /\ exitCode # 0))

\* ExecuteTask failed at the second turn, after one turn was recorded, and
\* main exited with status 1
C22_Witness ==
    /\ rpc = "failed"
    /\ result = ErrResult("execute task")
    /\ Len(ttftPerTurn) >= 1
    /\ flags.output
    /\ mpc = "exited"
    /\ exitCode = 1
    /\ gor.monitor # "fatal"

(***************************************************************************)
(* Claims about the records of runStoryFinishing (checked under SpecRun)   *)
(***************************************************************************)
\* the step issued an ExecuteTask call that was answered
ExecuteTaskAnswered ==
    /\ Len(calls') = Len(calls) + 1
    /\ calls'[Len(calls')].op = "ExecuteTask"
    /\ rpc' # "failed"

\* the answer a daemon metrics block stands for, when there is none: zeros
MeasuredTtft(resp) == IF resp.metrics.present THEN resp.metrics.ttft ELSE 0

MeasuredTpot(resp) == IF resp.metrics.present THEN resp.metrics.tpot ELSE 0

\* C23: at every daemon RPC and at the return of runStoryFinishing the three
\* per-turn sequences have the length of the turn counter, which is the
\* number of answered ExecuteTask calls; the i-th answered ExecuteTask call
\* appends entry i to all three from its own answer and no other step
\* touches them; the calls are issued one at a time.
C23_RecordsInOrder ==
    /\ [](/\ Len(ttftPerTurn) = turn
          /\ Len(tpotPerTurn) = turn
          /\ Len(latencyPerTurnMs) = turn
          /\ Len(ExecCalls) =
                turn + (IF result = ErrResult("execute task") THEN 1 ELSE 0))
    /\ [][IF ExecuteTaskAnswered
          THEN \E resp \in Responses :
                  /\ ttftPerTurn' = Append(ttftPerTurn, MeasuredTtft(resp))
                  /\ tpotPerTurn' = Append(tpotPerTurn, MeasuredTpot(resp))
                  /\ latencyPerTurnMs' = Append(latencyPerTurnMs, resp.elapsed)
                  /\ turn' = turn + 1
          ELSE UNCHANGED <<ttftPerTurn, tpotPerTurn, latencyPerTurnMs, turn>>]_vars
    /\ [][/\ Len(calls') <= Len(calls) + 1
          /\ SubSeq(calls', 1, Len(calls)) = calls]_vars

\* three turns were recorded, over two handles
C23_Witness ==
    /\ turn = 3
    /\ Len(ttftPerTurn) = 3
    /\ Len(HandleCalls) = 2
    /\ rpc = "done"

(***************************************************************************)
(* Claim about the output file (checked under SpecStoryRun)                *)
(***************************************************************************)
\* C24: a run with an output path exits with status 0 only if the Run
\* Result was written to that path.
C24_Original ==
    (flags.output /\ exitCode = 0) => world.output = "written"

(***************************************************************************)
(* Claim about the workflow-config file (checked under SpecCascadeMain)    *)
(***************************************************************************)
\* C25: after a run that completes successfully the workflow-config file
\* the run wrote no longer exists.
C25_Original ==
    (exitCode = 0 /\ Has("config_written")) => world.configFile = "removed"

(***************************************************************************)
(* Claim about failed noise requests (checked under SpecNoiseReq)          *)
(***************************************************************************)
\* the step logged the failure of a noise request
NoiseFailureLogged ==
    CountOf(gor'.noiseLog, "failed") > CountOf(gor.noiseLog, "failed")

\* C26: a failed noise request is only logged: the step that logs it leaves
\* the generator loop, the workload runner, main, the files and the Run
\* Result as they were, and a generator at the top of its loop that is not
\* cancelled launches its next request whatever failed before.
C26_NoiseFailureOnlyLogged ==
    /\ [][NoiseFailureLogged =>
            /\ gor' = [gor EXCEPT !.noiseLog = gor'.noiseLog]
            /\ UNCHANGED <<mpc, exitCode, defers, world, trace, runVars,
                           daemonVars>>]_vars
    /\ []((/\ ProcessAlive
           /\ gor.noise = "top"
           /\ ~gor.noiseCancelled
           /\ gor.noiseSent < MaxNoise) => ENABLED NoiseLaunch)

\* a request failed, the generator launched another one after it, and the
\* run completed its turn, wrote its results and exited with status 0
C26_Witness ==
    /\ \E i, j \in 1 .. Len(gor.noiseLog) :
          i < j /\ gor.noiseLog[i] = "failed" /\ gor.noiseLog[j] = "sent"
    /\ turn >= 1
    /\ result.status = "ok"
    /\ world.output = "written"
    /\ exitCode = 0

(***************************************************************************)
(* Claim about the aggregates of the Run Result (checked under SpecRun)    *)
(***************************************************************************)
\* x[1] + ... + x[n]
RECURSIVE SumTo(_, _)
SumTo(x, n) == IF n = 0 THEN 0 ELSE SumTo(x, n - 1) + x[n]

EmptyResultReached ==
    /\ result.status = "ok"
    /\ result.ttft_per_turn = <<>>

(***************************************************************************)
(* Claims about the prompt and the story context (checked under SpecRun)   *)
(***************************************************************************)
\* a prompt without its "Request <n>." prefix and blank line
PromptBody(p) ==
    IF HasRequestPrefix(p) THEN SubSeq(p, FirstDot(p) + 2, Len(p)) ELSE p

\* the template up to and including "Once upon a time ", with k twice
FixedPart(k) ==
    <<"We are playing a story finishing game. It is your turn. You are only allowed to give me the next ">>
        \o FmtD(k)
        \o <<" tokens. You must give me exactly the next ">>
        \o FmtD(k)
        \o <<" tokens to finish the story. The story starts as follows:\n\nOnce upon a time ">>

\* what follows the fixed part in the prompt of the i-th ExecuteTask call
PromptContext(i) ==
    LET b == PromptBody(ExecCalls[i].prompt)
    IN  SubSeq(b, Len(FixedPart(rArgs.k)) + 1, Len(b))

\* the story grows from a to b by the content of one answer, or not at all
OneTurnOn(a, b) ==
    \E resp \in Responses : b = AppendContent(a, TrimSpace(resp.content))

\* C28: the prompt of every ExecuteTask call, after its "Request" prefix if
\* any, is the fixed template with k twice, ending in "Once upon a time ",
\* followed by exactly the story context accumulated from the earlier turns:
\* nothing at the first turn, then the context of the turn before grown by
\* the answer of that turn; the story the runner holds is the context of
\* its last prompt, grown by the answer when there was one.
C28_PromptIsTemplateAndContext ==
    /\ \A i \in 1 .. Len(ExecCalls) :
          LET b == PromptBody(ExecCalls[i].prompt)
              f == FixedPart(rArgs.k)
          IN  /\ Len(b) >= Len(f)
              /\ SubSeq(b, 1, Len(f)) = f
    /\ Len(ExecCalls) >= 1 => PromptContext(1) = <<>>
    /\ \A i \in 2 .. Len(ExecCalls) :
          OneTurnOn(PromptContext(i - 1), PromptContext(i))
    /\ Len(ExecCalls) >= 1 =>
          IF result = ErrResult("execute task")
          THEN storyContext = PromptContext(Len(ExecCalls))
          ELSE OneTurnOn(PromptContext(Len(ExecCalls)), storyContext)

\* the third prompt of a vLLM flush run carries the story of two turns
C28_Witness ==
    /\ FlushOnVLLM
    /\ rArgs.k = 32
    /\ Len(ExecCalls) = 3
    /\ PromptContext(3) = <<"a", " ", "c", " ", "d">>

\* the answer of the i-th executed turn: every answer the daemon can give
\* has its own wall-clock time, which the runner records
AnswerOf(i) ==
    CHOOSE resp \in Responses : resp.elapsed = latencyPerTurnMs[i]

\* a text without the whitespace at its two ends
Stripped(s) ==
    LET inked == {m \in 1 .. Len(s) : s[m] \notin {" ", "\n", "\t"}}
    IN  IF inked = {} THEN <<>>
        ELSE SubSeq(s, CHOOSE a \in inked : \A m \in inked : a <= m,
                       CHOOSE b \in inked : \A m \in inked : b >= m)

\* the non-empty stripped contents of the first n answers, in turn order,
\* with one space between neighbours
RECURSIVE JoinedAnswers(_)
JoinedAnswers(n) ==
    IF n = 0 THEN <<>>
    ELSE LET before == JoinedAnswers(n - 1)
             c == Stripped(AnswerOf(n).content)
         IN  IF c = <<>> THEN before
             ELSE IF before = <<>> THEN c
             ELSE before \o <<" ">> \o c

\* C29: after n executed turns the story context is the whitespace-trimmed
\* non-empty contents of the answers 1..n joined by single spaces in turn
\* order, with no space at either end; a turn whose trimmed content is
\* empty leaves the context as it was and still counts as a turn with a
\* record.
C29_StoryIsJoinedAnswers ==
    /\ Len(latencyPerTurnMs) = turn
    /\ storyContext = JoinedAnswers(turn)
    /\ storyContext # <<>> =>
          /\ storyContext[1] # " "
          /\ storyContext[Len(storyContext)] # " "

\* three turns were recorded; the second answered only a blank and left the
\* story of the first turn as it was
C29_Witness ==
    /\ turn = 3
    /\ latencyPerTurnMs = <<40, 5, 50>>
    /\ storyContext = <<"b", " ", "c", " ", "d">>

\* the step is a GetNextTask that answered complete
CompleteReported == rpc = "next" /\ rpc' = "outer"

\* C30: when GetNextTask reports complete, the inner loop ends with the
\* turn counter, the story context and the per-turn sequences as they were,
\* with turns still to run; the next daemon RPC of the runner is then a
\* StartWorkflow, whose handle was not used before: a GetNextTask call is
\* followed by an ExecuteTask on its handle or by a StartWorkflow, never by
\* another GetNextTask.
C30_CompleteBreaksInnerLoop ==
    /\ [][CompleteReported =>
            /\ UNCHANGED <<turn, storyContext, ttftPerTurn, tpotPerTurn,
                           latencyPerTurnMs, execID>>
            /\ turn < rArgs.turns]_vars
    /\ [][(rpc = "outer" /\ calls' # calls) =>
            /\ calls'[Len(calls')].op = "StartWorkflow"
            /\ rpc' = "next" =>
                  \A i \in 1 .. Len(calls) : calls[i].execID < execID']_vars
    /\ [](\A i \in 1 .. (Len(calls) - 1) :
            calls[i].op = "GetNextTask" =>
                \/ /\ calls[i + 1].op = "ExecuteTask"
                   /\ calls[i + 1].execID = calls[i].execID
                \/ calls[i + 1].op = "StartWorkflow")
    /\ []((rpc = "outer" /\ turn < rArgs.turns /\ execID < MaxHandles)
            => ENABLED StartWorkflow)

\* after one recorded turn a GetNextTask reported complete, and the runner
\* started a second handle with the turn and the story of before
C30_Witness ==
    /\ Len(calls) = 5
    /\ calls[3].op = "ExecuteTask"
    /\ calls[4].op = "GetNextTask"
    /\ calls[5].op = "StartWorkflow"
    /\ execID = 2
    /\ turn = 1
    /\ Len(latencyPerTurnMs) = 1
    /\ rpc = "next"

(***************************************************************************)
(* Claims about the runner against a given daemon (checked under           *)
(* SpecRunDaemons)                                                         *)
(***************************************************************************)
\* the runner has turns to run and its daemon reports complete on every
\* fresh handle
Spinning == daemon = "completing" /\ rArgs.turns >= 1

\* C31: against a daemon whose GetNextTask reports complete on every fresh
\* handle, runStoryFinishing with T >= 1 never returns, neither a result nor
\* an error: it issues StartWorkflow / GetNextTask pairs, one after the
\* other, as long as handles are to be had, with the turn counter at 0 and
\* no record appended.
C31_SilentSpin ==
    /\ [](Spinning =>
            /\ rpc \notin {"done", "failed"}
            /\ result = NoResult
            /\ turn = 0
            /\ ttftPerTurn = <<>>
            /\ tpotPerTurn = <<>>
            /\ latencyPerTurnMs = <<>>
            /\ storyContext = <<>>)
    /\ [](Spinning =>
            \A i \in 1 .. Len(calls) :
                calls[i].op = IF i % 2 = 1 THEN "StartWorkflow"
                              ELSE "GetNextTask")
    /\ []((Spinning /\ execID < MaxHandles) => ENABLED NextRun)
    /\ (Spinning ~> Len(calls) = 2 * MaxHandles)

\* every handle the model has was started and reported complete
C31_Witness ==
    /\ Spinning
    /\ execID = MaxHandles
    /\ Len(calls) = 2 * MaxHandles
    /\ rpc = "outer"

\* the runner has turns to run and its daemon offers the two task slots of
\* the story workflow on every handle
WellServed == daemon = "twoSlots" /\ rArgs.turns >= 0

\* ceil(t / 2)
HalfUp(t) == (t + 1) \div 2

\* the last StartWorkflow call before call i is followed by the handle it
\* returned: the number of StartWorkflow calls among calls 1..i
HandleAt(i) ==
    Len(SelectSeq(SubSeq(calls, 1, i), LAMBDA c : c.op = "StartWorkflow"))

\* C32: against a daemon that offers two task slots per handle and never
\* errors, runStoryFinishing terminates, after exactly ceil(T/2)
\* StartWorkflow calls and exactly T ExecuteTask calls; each ExecuteTask
\* uses the most recently started handle and the task index of the
\* GetNextTask just before it (0 then 1 on a handle), and for odd T the
\* last handle runs one slot only.
C32_TwoSlotRun ==
    /\ (WellServed ~> rpc = "done")
    /\ []((WellServed /\ rpc = "done") =>
            /\ Len(HandleCalls) = HalfUp(rArgs.turns)
            /\ Len(ExecCalls) = rArgs.turns
            /\ result.status = "ok")
    /\ [](WellServed =>
            \A i \in 1 .. Len(calls) :
                calls[i].op = "ExecuteTask" =>
                    /\ i > 1
                    /\ calls[i - 1].op = "GetNextTask"
                    /\ calls[i].execID = HandleAt(i)
                    /\ calls[i - 1].execID = HandleAt(i)
                    /\ calls[i].taskIndex =
                          Len(SelectSeq(SubSeq(calls, 1, i - 1),
                                LAMBDA c : /\ c.op = "ExecuteTask"
                                           /\ c.execID = HandleAt(i))))
    /\ []((WellServed /\ rpc = "done" /\ rArgs.turns % 2 = 1) =>
            Len(SelectSeq(calls,
                  LAMBDA c : /\ c.op = "ExecuteTask"
                             /\ c.execID = HalfUp(rArgs.turns))) = 1)

\* a run of three turns: two handles, the second with one slot
C32_Witness ==
    /\ WellServed
    /\ rArgs.turns = 3
    /\ rpc = "done"
    /\ Len(HandleCalls) = 2
    /\ calls[Len(calls)].op = "ExecuteTask"
    /\ calls[Len(calls)].execID = 2
    /\ calls[Len(calls)].taskIndex = 0

(***************************************************************************)
(* Claim about the --policy story runner (checked under SpecPolicyMain)    *)
(***************************************************************************)
\* C33: whenever runExperiment of the --policy form returns success, the
\* turn fields of per_turn_metrics are exactly 1, 2, ..., T: never fewer
\* than T records.
C33_Original ==
    (pol.pc = "done" /\ pol.result.status = "ok") =>
        LET m == pol.result.per_turn_metrics
        IN  /\ Len(m) = pol.args.turns
            /\ \A i \in 1 .. Len(m) : m[i].turn = i

(***************************************************************************)
(* Claim about the start of the engine (checked under SpecMain)            *)
(***************************************************************************)
\* C34: startSGLangInTmux / startVLLMInTmux remove the prior container,
\* then check for the multiplexer session, then propagate SUDO_PASSWORD,
\* then spawn the detached window; when the TMUX indicator is absent the
\* call fails without killing or creating any window, and a failure at a
\* step performs none of the later steps.
C34_Original ==
    /\ (OwnEngine # "none" /\ ~flags.tmux) =>
          (~Has("win_kill") /\ ~Has("win_new"))
    /\ Has("win_kill") => Before("container_rm", "win_kill")
    /\ Has("tmux_setenv") => Before("container_rm", "tmux_setenv")
    /\ Has("win_new") => Before("tmux_setenv", "win_new")


(***************************************************************************)
(* Claim about the release of resources (checked under SpecEngineRun)     *)
(***************************************************************************)

\* runs of main that start their own engine inside a tmux session
EngineRunFlagSets ==
    {f \in [sudo : {TRUE}, tmux : {TRUE}, backendType : BackendTypes,
            cacheStrategy : {"flush"}, startSGLang : BOOLEAN,
            startVLLM : BOOLEAN, output : BOOLEAN, noiseRate : {0, 2},
            turns : 1 .. MaxMainTurns, k : {32}] :
        \/ f.startSGLang /\ ~f.startVLLM /\ f.backendType = "sglang"
        \/ f.startVLLM /\ ~f.startSGLang /\ f.backendType = "vllm"}

InitEngineRun ==
    /\ flags \in EngineRunFlagSets
    /\ mpc = "start"
    /\ exitCode = -1
    /\ defers = <<>>
    /\ waited = 0
    /\ world = [configFile |-> "none", outDir |-> FALSE, logFile |-> "none",
                output |-> "none", container |-> "absent",
                window |-> "absent", killSent |-> FALSE,
                dExitPhase |-> "none"]
    /\ gor = [processExited |-> <<>>, watcher |-> "none", monitor |-> "none",
              daemonMonitorDone |-> "open", noise |-> "none",
              noiseCancelled |-> FALSE, noiseSent |-> 0,
              noiseLog |-> <<>>]
    /\ trace = <<>>
    /\ daemon = "none"
    /\ dExecuted = 0
    /\ CfgIdle
    /\ RunIdle
    /\ CascIdle
    /\ PolIdle
    /\ HypIdle

SpecEngineRun == InitEngineRun /\ [][NextMain]_vars

\* the external actions performed after the daemon monitor was told to stop
AfterMonitorStop ==
    SubSeq(trace, Pos("monitor_done") + 1, Len(trace))

\* the same, without the close of the daemon's log file
ReleaseSteps == SelectSeq(AfterMonitorStop, LAMBDA e : e # "log_closed")

\* main returned normally after the workload, having started its own engine
NormalReturnOwnEngine ==
    exitCode = 0 /\ OwnEngine # "none" /\ Has("monitor_done")

\* C35: when main returns normally after having started its own engine, the
\* noise generator is cancelled just before the daemon monitor is stopped,
\* and after that come, in this order: the results file written (when one was
\* asked for and the write succeeded), the daemon child killed, the engine
\* container force-removed, the engine window killed (when the kill
\* succeeded), the config file deleted.
C35_ReleaseOrder ==
    NormalReturnOwnEngine =>
        /\ NoiseEnabled(flags.noiseRate) =>
               /\ Has("noise_cancel")
               /\ Pos("noise_cancel") + 1 = Pos("monitor_done")
        /\ \E written, killed \in BOOLEAN :
               /\ written => flags.output
               /\ ReleaseSteps =
                      (IF written THEN <<"results_written">> ELSE <<>>)
                      \o <<"daemon_kill", "container_rm">>
                      \o (IF killed THEN <<"win_kill">> ELSE <<>>)
                      \o <<"config_removed">>

\* a normal return with noise, a results file and every release step done
C35_Witness ==
    /\ NormalReturnOwnEngine
    /\ NoiseEnabled(flags.noiseRate)
    /\ ReleaseSteps = <<"results_written", "daemon_kill", "container_rm",
                        "win_kill", "config_removed">>


(***************************************************************************)
(* The URLs built for the engine: vllmProbeURL, checkBackendReady and      *)
(* sendNoiseRequest (checked under SpecUrl)                                *)
(***************************************************************************)
MaxUrlLen == 5

\* the characters backend URLs are made of here
UrlChars == {"h", "/", "v", "1"}

BackendURLs == UNION {[1 .. n -> UrlChars] : n \in 1 .. MaxUrlLen}

SlashV1 == <<"/", "v", "1">>

\* strings.HasSuffix(s, suffix)
HasSuffix(s, suffix) ==
    /\ Len(s) >= Len(suffix)
    /\ SubSeq(s, Len(s) - Len(suffix) + 1, Len(s)) = suffix

\* strings.TrimSuffix(s, suffix)
TrimSuffix(s, suffix) ==
    IF HasSuffix(s, suffix) THEN SubSeq(s, 1, Len(s) - Len(suffix)) ELSE s

\* vllmProbeURL(backendURL)
vllmProbeURL(backendURL) ==
    LET base == TrimSuffix(backendURL, <<"/">>)
    IN IF HasSuffix(base, SlashV1) THEN base \o <<"/models">>
       ELSE base \o SlashV1 \o <<"/models">>

\* probeURL of checkBackendReady and waitForBackendReady
probeURL(backendURL, backendType) ==
    IF backendType = "vllm" THEN vllmProbeURL(backendURL) ELSE backendURL

\* noiseURL of sendNoiseRequest
noiseURL(backend, backendType) ==
    IF backendType = "vllm"
    THEN LET base == TrimSuffix(TrimSuffix(backend, SlashV1), <<"/">>)
         IN base \o SlashV1 \o <<"/chat/completions">>
    ELSE backend \o <<"/api/chat">>

UrlFns == {"checkBackendReady", "sendNoiseRequest"}

InitUrl ==
    /\ cfgFn \in UrlFns
    /\ cfgArgs \in [backend : BackendURLs, backendType : BackendTypes]
    /\ cfgOut = NoFile
    /\ RunIdle
    /\ CascIdle
    /\ MainIdle
    /\ PolIdle
    /\ HypIdle
    /\ daemon = "none"
    /\ dExecuted = 0

\* checkBackendReady computes the URL it probes
CallCheckBackendReady ==
    /\ cfgFn = "checkBackendReady"
    /\ ~cfgOut.written
    /\ cfgOut' = [written |-> TRUE,
                  lines |-> probeURL(cfgArgs.backend, cfgArgs.backendType)]
    /\ UNCHANGED <<cfgFn, cfgArgs, runVars, daemonVars, cascVars, mainVars, polVars, hypVars>>

\* sendNoiseRequest computes the URL it posts to
CallSendNoiseRequest ==
    /\ cfgFn = "sendNoiseRequest"
    /\ ~cfgOut.written
    /\ cfgOut' = [written |-> TRUE,
                  lines |-> noiseURL(cfgArgs.backend, cfgArgs.backendType)]
    /\ UNCHANGED <<cfgFn, cfgArgs, runVars, daemonVars, cascVars, mainVars, polVars, hypVars>>

NextUrl ==
    \/ CallCheckBackendReady
    \/ CallSendNoiseRequest

SpecUrl == InitUrl /\ [][NextUrl]_vars

\* B is a base: not empty, and ending neither in "/" nor in "/v1"
IsBase(B) ==
    /\ B # <<>>
    /\ ~HasSuffix(B, <<"/">>)
    /\ ~HasSuffix(B, SlashV1)

\* the four forms of a backend URL over the base B
FormsOver(B) ==
    {B, B \o <<"/">>, B \o SlashV1, B \o SlashV1 \o <<"/">>}

\* C36: for backend type vllm and a backend URL of the form B, B/, B/v1 or
\* B/v1/, the readiness probe targets B/v1/models and a noise request is
\* posted to B/v1/chat/completions (so "/v1" is never doubled).
C36_Original ==
    (cfgFn \in UrlFns /\ cfgOut.written /\ cfgArgs.backendType = "vllm") =>
        \A n \in 1 .. Len(cfgArgs.backend) :
            LET B == SubSeq(cfgArgs.backend, 1, n)
            IN (IsBase(B) /\ cfgArgs.backend \in FormsOver(B)) =>
                  cfgOut.lines =
                      B \o SlashV1 \o
                      (IF cfgFn = "checkBackendReady" THEN <<"/models">>
                       ELSE <<"/chat/completions">>)


(***************************************************************************)
(* Claim about the lists of a cascade result (checked under SpecCasc)      *)
(***************************************************************************)

\* C37: in a successful result of the cascade's runExperiment the lists
\* analysis_times, synthesis_times, summary_times and total_times have the
\* same length, the number of fully completed tasks, also when the daemon
\* signals complete in the middle of a task.
C37_Original ==
    (cpc = "done" /\ cResult.status = "ok") =>
        /\ Len(cResult.analysis_times) = Len(cResult.total_times)
        /\ Len(cResult.synthesis_times) = Len(cResult.total_times)
        /\ Len(cResult.summary_times) = Len(cResult.total_times)


(***************************************************************************)
(* Claim about the results file and the exit status (checked under        *)
(* SpecEngineRun)                                                          *)
(***************************************************************************)

\* the process ended by itself: main returned or log.Fatalf was called
EndedByItself == exitCode \in {0, 1}

\* C38: no end state of the story orchestrator has the results file on disk
\* together with a nonzero exit status.
C38_Original ==
    (EndedByItself /\ world.output = "written") => exitCode = 0


(***************************************************************************)
(* Claim about answers without a metrics block (checked under SpecRun)     *)
(***************************************************************************)

\* C39: every TTFT and TPOT value runStoryFinishing has recorded comes from
\* an ExecuteTask answer that carried a metrics block: an answer without one
\* is never recorded as a turn.
C39_Original ==
    \A i \in 1 .. Len(ttftPerTurn) :
        /\ i <= Len(latencyPerTurnMs)
        /\ AnswerOf(i).metrics.present

====
